---- MODULE Spec2Model ----
(***************************************************************************)
(* Property-record ingestion pipeline of lovecentraltexas (packages/quin): *)
(* the per-domain rate limiter, fetchWithRetry, the Hays / Travis /        *)
(* Williamson CAD adapters, and the scraper factory.                       *)
(*                                                                         *)
(* JavaScript runs one callback at a time: every action below is the code  *)
(* that runs between two awaits of one async call.                         *)
(***************************************************************************)
EXTENDS Integers, Sequences, FiniteSets, TLC

\* ------------------------------------------------------------------ bounds
\* concurrent callers sharing the rate limiter
NumCallers == 2
\* the clock advances MaxTicks times at most
MaxTicks == 4

\* a session call re-enters itself at most MaxAttempts times in the model
MaxAttempts == 3
\* identifiers handed to one batchScrapeProperties call
MaxBatch == 2

VARIABLES
  now,             \* Date.now(), in ms
  rateLimitStore,  \* rateLimiter.js: Map domain -> {requests, config}
  session,         \* this.session of each adapter instance
  sessionExpiry,   \* this.sessionExpiry of each adapter instance
  callers,         \* one record per async adapter call in flight
  recordedLog,     \* every timestamp recordRequest ever pushed, per domain
  fw,              \* the one fetchWithRetry call in flight
  scraperRegistry, \* scraperFactory.js: the own properties of scraperRegistry
  registryProto,   \* the prototype of the object scraperRegistry
  constructed,     \* adapters constructed by createScraper so far
  factory,         \* the latest call into scraperFactory.js and its outcome
  pure,            \* one call of a function of utils/: name, arguments, result
  transport,       \* handlers/api.js: the module-level transport slot
  sseConnections,  \* the state of each GET /mcp/sse request
  sseOrder,        \* the requests in the order their transports were created
  lastPost,        \* how the latest POST /mcp/messages was answered
  handler          \* which of the two versions of the api handler runs

scrapeVars == <<now, rateLimitStore, session, sessionExpiry, callers, recordedLog>>
fetchVars == <<fw>>
factoryVars == <<scraperRegistry, registryProto, constructed, factory>>

pureVars == <<pure>>
mcpVars == <<transport, sseConnections, sseOrder, lastPost, handler>>

vars == <<scrapeVars, fetchVars, factoryVars, pureVars, mcpVars>>

Callers == 1..NumCallers

\* --------------------------------------------------------- rateLimiter.js
\* getDomain(this.baseUrl) of the three fetch-based adapters
AdapterDomain ==
  [a \in {"hays", "travis", "wcad"} |->
     CASE a = "hays" -> "esearch.hayscad.com"
       [] a = "travis" -> "stage.traviscad.org"
       [] OTHER -> "www.wcad.org"]

Adapters == DOMAIN AdapterDomain
Domains == {AdapterDomain[a] : a \in Adapters}

\* requestsPerSecond is kept in tenths (0.5 req/s = 5)
defaultConfig == [requestsPerSecondTenths |-> 5, windowMs |-> 2000]

domainConfigs ==
  [d \in {"hayscad.org", "traviscad.org", "mls.com"} |->
     IF d = "mls.com"
       THEN [requestsPerSecondTenths |-> 10, windowMs |-> 1000]
       ELSE [requestsPerSecondTenths |-> 5, windowMs |-> 2000]]

getRateLimitConfig(domain) ==
  IF domain \in DOMAIN domainConfigs THEN domainConfigs[domain] ELSE defaultConfig

\* Math.ceil(a / b) for a >= 0, b > 0
Ceil(a, b) == (a + b - 1) \div b

\* Math.ceil((config.requestsPerSecond * config.windowMs) / 1000)
maxRequests(config) ==
  Ceil(config.requestsPerSecondTenths * config.windowMs, 10000)

\* variant of InWindow that keeps the timestamp at the start of the window
InWindowInclusive(requests, windowStart) ==
  SelectSeq(requests, LAMBDA timestamp : timestamp >= windowStart)

\* domainData.requests.filter((timestamp) => timestamp > windowStart)
InWindow(requests, windowStart) ==
  SelectSeq(requests, LAMBDA timestamp : timestamp > windowStart)

NoEntry == [has |-> FALSE, requests |-> <<>>]

\* the store as canMakeRequest(domain) leaves it at time t
canMakeRequestStore(store, domain, t) ==
  IF ~store[domain].has
    THEN [store EXCEPT ![domain] = [has |-> TRUE, requests |-> <<>>]]
    ELSE [store EXCEPT ![domain].requests =
            InWindow(@, t - getRateLimitConfig(domain).windowMs)]

\* variant of canMakeRequest that admits a request when the window is full
canMakeRequestAtLimit(store, domain, t) ==
  IF ~store[domain].has
    THEN TRUE
    ELSE Len(canMakeRequestStore(store, domain, t)[domain].requests)
           <= maxRequests(getRateLimitConfig(domain))

\* the value canMakeRequest(domain) returns at time t
canMakeRequest(store, domain, t) ==
  IF ~store[domain].has
    THEN TRUE
    ELSE Len(canMakeRequestStore(store, domain, t)[domain].requests)
           < maxRequests(getRateLimitConfig(domain))

\* the store as recordRequest(domain) leaves it at time t
recordRequest(store, domain, t) ==
  [store EXCEPT ![domain] =
     [has |-> TRUE, requests |-> Append(store[domain].requests, t)]]

\* the clock step of the model: half a default window
TickMs == defaultConfig.windowMs \div 2

\* ------------------------------------------------------ JavaScript values
\* A JS value is a tagged record: t is "str" (v a sequence of one-character
\* strings), "num" (v an integer count of thousandths), "nan", "null",
\* "undef", "function" or "obj" (v a record of JS values).
Scale == 10 * 10 * 10

\* the one element of a singleton: Only({ e : x \in {a} }) computes a once, then e
Only(S) == CHOOSE x \in S : TRUE
Str(chars) == [t |-> "str", v |-> chars]
Num(thousandths) == [t |-> "num", v |-> thousandths]
NaN == [t |-> "nan"]
Null == [t |-> "null"]
Undefined == [t |-> "undef"]
Obj(fields) == [t |-> "obj", v |-> fields]
Bool(b) == [t |-> "bool", v |-> b]
EmptyStr == Str(<<>>)

\* typeof x === "string" / "number"
IsString(x) == x.t = "str"
IsNumber(x) == x.t \in {"num", "nan"}

\* the truthiness JS gives a value in `a || b` and `if (a)`
Truthy(x) ==
  CASE x.t = "str" -> x.v # <<>>
    [] x.t = "num" -> x.v # 0
    [] x.t \in {"nan", "null", "undef"} -> FALSE
    [] x.t = "bool" -> x.v
    [] OTHER -> TRUE

\* a || b
OrElse(a, b) == IF Truthy(a) THEN a ELSE b

\* own property lookup obj[key] on a plain data object
Get(obj, key) ==
  IF obj.t = "obj" /\ key \in DOMAIN obj.v THEN obj.v[key] ELSE Undefined

Digits == {"0", "1", "2", "3", "4", "5", "6", "7", "8", "9"}

DigitVal(ch) ==
  CASE ch = "0" -> 0 [] ch = "1" -> 1 [] ch = "2" -> 2 [] ch = "3" -> 3
    [] ch = "4" -> 4 [] ch = "5" -> 5 [] ch = "6" -> 6 [] ch = "7" -> 7
    [] ch = "8" -> 8 [] OTHER -> 9

Whitespace == {" ", "\t", "\n"}

\* the value of a run of decimal digits
RECURSIVE DigitsValue(_)
DigitsValue(ds) ==
  IF ds = <<>> THEN 0
  ELSE 10 * DigitsValue(SubSeq(ds, 1, Len(ds) - 1)) + DigitVal(ds[Len(ds)])

\* the longest run of digits of s that starts at position i
RECURSIVE DigitRun(_, _)
DigitRun(s, i) ==
  IF i > Len(s) \/ s[i] \notin Digits THEN <<>>
  ELSE <<s[i]>> \o DigitRun(s, i + 1)

\* the first three fractional digits of a run, as thousandths
FractionValue(ds) ==
  LET d(k) == IF k <= Len(ds) THEN DigitVal(ds[k]) ELSE 0
  IN 100 * d(1) + 10 * d(2) + d(3)

\* cleaned.match(/(\d+\.?\d*)/) followed by parseFloat(match[1]);
\* NoMatch when the string holds no digit
NoMatch == [t |-> "nomatch"]
FirstNumber(s) ==
  LET starts == {i \in 1..Len(s) : s[i] \in Digits}
  IN IF starts = {} THEN NoMatch
     ELSE LET i == CHOOSE k \in starts : \A j \in starts : k <= j
              whole == DigitRun(s, i)
              dot == i + Len(whole)
              frac == IF dot <= Len(s) /\ s[dot] = "."
                        THEN DigitRun(s, dot + 1) ELSE <<>>
          IN Num(Scale * DigitsValue(whole) + FractionValue(frac))

\* ---------------------------------------------------- dataNormalization.js
\* variant of normalizePrice that leaves the commas in place
normalizePriceKeepsCommas(priceString) ==
  IF IsNumber(priceString) THEN priceString
  ELSE IF ~IsString(priceString) THEN Num(0)
  ELSE LET cleaned == SelectSeq(priceString.v,
                                LAMBDA ch : ch \notin ({"$"} \cup Whitespace))
           match == FirstNumber(cleaned)
       IN IF match.t # "nomatch" THEN match ELSE Num(0)

normalizePrice(priceString) ==
  IF IsNumber(priceString) THEN priceString
  ELSE IF ~IsString(priceString) THEN Num(0)
  ELSE LET cleaned == SelectSeq(priceString.v,
                                LAMBDA ch : ch \notin ({"$", ","} \cup Whitespace))
           match == FirstNumber(cleaned)
       IN IF match.t # "nomatch" THEN match ELSE Num(0)

normalizeAcreage(acreageString) ==
  IF IsNumber(acreageString) THEN acreageString
  ELSE IF ~IsString(acreageString) THEN Num(0)
  ELSE LET match == FirstNumber(acreageString.v)
       IN IF match.t # "nomatch" THEN match ELSE Num(0)

\* String.prototype.toLowerCase on the letters the model uses
LowerChar(ch) ==
  CASE ch = "A" -> "a" [] ch = "B" -> "b" [] ch = "C" -> "c" [] ch = "D" -> "d"
    [] ch = "E" -> "e" [] ch = "F" -> "f" [] ch = "G" -> "g" [] ch = "H" -> "h"
    [] ch = "I" -> "i" [] ch = "J" -> "j" [] ch = "K" -> "k" [] ch = "L" -> "l"
    [] ch = "M" -> "m" [] ch = "N" -> "n" [] ch = "O" -> "o" [] ch = "P" -> "p"
    [] ch = "Q" -> "q" [] ch = "R" -> "r" [] ch = "S" -> "s" [] ch = "T" -> "t"
    [] ch = "U" -> "u" [] ch = "V" -> "v" [] ch = "W" -> "w" [] ch = "X" -> "x"
    [] ch = "Y" -> "y" [] ch = "Z" -> "z" [] OTHER -> ch

toLowerCase(s) == [i \in 1..Len(s) |-> LowerChar(s[i])]

\* String.prototype.trim
RECURSIVE trim(_)
trim(s) ==
  IF s = <<>> THEN s
  ELSE IF s[1] \in Whitespace THEN trim(Tail(s))
  ELSE IF s[Len(s)] \in Whitespace THEN trim(SubSeq(s, 1, Len(s) - 1))
  ELSE s

validStatuses ==
  << <<"a","c","t","i","v","e">>, <<"p","e","n","d","i","n","g">>,
     <<"s","o","l","d">>, <<"o","f","f","-","m","a","r","k","e","t">> >>

Includes(list, x) == \E i \in 1..Len(list) : list[i] = x

\* the own keys of the statusMap literal and what they map to
statusMap ==
  [k \in { <<"a","v","a","i","l","a","b","l","e">>, <<"l","i","s","t","e","d">>,
           <<"u","n","d","e","r","_","c","o","n","t","r","a","c","t">>,
           <<"c","l","o","s","e","d">>, <<"w","i","t","h","d","r","a","w","n">>,
           <<"e","x","p","i","r","e","d">> } |->
     CASE k \in { <<"a","v","a","i","l","a","b","l","e">>, <<"l","i","s","t","e","d">> }
            -> validStatuses[1]
       [] k = <<"u","n","d","e","r","_","c","o","n","t","r","a","c","t">>
            -> validStatuses[2]
       [] k = <<"c","l","o","s","e","d">> -> validStatuses[3]
       [] OTHER -> validStatuses[4]]

\* the properties every object literal inherits from Object.prototype;
\* reading one through obj[key] gives a function (or, for __proto__, an object)
ObjectPrototypeKeys ==
  { <<"c","o","n","s","t","r","u","c","t","o","r">>,
    <<"_","_","p","r","o","t","o","_","_">>,
    <<"t","o","S","t","r","i","n","g">>,
    <<"v","a","l","u","e","O","f">>,
    <<"h","a","s","O","w","n","P","r","o","p","e","r","t","y">> }

InheritedValue == [t |-> "function"]

normalizeStatus(status) ==
  IF ~IsString(status) THEN Str(validStatuses[1])
  ELSE LET normalized == trim(toLowerCase(status.v))
       IN IF Includes(validStatuses, normalized) THEN Str(normalized)
          ELSE IF normalized \in DOMAIN statusMap THEN Str(statusMap[normalized])
          ELSE IF normalized \in ObjectPrototypeKeys THEN InheritedValue
          ELSE Str(validStatuses[1])

\* String.prototype.toUpperCase on the letters the model uses
UpperChar(ch) ==
  CASE ch = "a" -> "A" [] ch = "b" -> "B" [] ch = "c" -> "C" [] ch = "d" -> "D"
    [] ch = "e" -> "E" [] ch = "f" -> "F" [] ch = "g" -> "G" [] ch = "h" -> "H"
    [] ch = "i" -> "I" [] ch = "j" -> "J" [] ch = "k" -> "K" [] ch = "l" -> "L"
    [] ch = "m" -> "M" [] ch = "n" -> "N" [] ch = "o" -> "O" [] ch = "p" -> "P"
    [] ch = "q" -> "Q" [] ch = "r" -> "R" [] ch = "s" -> "S" [] ch = "t" -> "T"
    [] ch = "u" -> "U" [] ch = "v" -> "V" [] ch = "w" -> "W" [] ch = "x" -> "X"
    [] ch = "y" -> "Y" [] ch = "z" -> "Z" [] OTHER -> ch

toUpperCase(s) == [i \in 1..Len(s) |-> UpperChar(s[i])]

normalizeZoning(zoningString) ==
  IF ~IsString(zoningString) THEN EmptyStr
  ELSE Str(toUpperCase(trim(zoningString.v)))

\* the index of the first character of s, from i on, that is not whitespace
RECURSIVE SkipWhitespace(_, _)
SkipWhitespace(s, i) ==
  IF i <= Len(s) /\ s[i] \in Whitespace THEN SkipWhitespace(s, i + 1) ELSE i

\* parseInt(x): leading whitespace, an optional sign, then a run of digits
parseInt(x) ==
  IF IsNumber(x) THEN Num(Scale * (x.v \div Scale))
  ELSE IF ~IsString(x) THEN NaN
  ELSE LET i == SkipWhitespace(x.v, 1)
           signed == i <= Len(x.v) /\ x.v[i] \in {"+", "-"}
           run == DigitRun(x.v, IF signed THEN i + 1 ELSE i)
       IN IF run = <<>> THEN NaN
          ELSE IF signed /\ x.v[i] = "-" THEN Num(0 - Scale * DigitsValue(run))
          ELSE Num(Scale * DigitsValue(run))

\* parseFloat(s) of a string: leading whitespace, an optional sign, digits with
\* an optional fraction; NaN when no digit is found there
parseFloat(s) ==
  LET i == SkipWhitespace(s, 1)
      signed == i <= Len(s) /\ s[i] \in {"+", "-"}
      start == IF signed THEN i + 1 ELSE i
      whole == DigitRun(s, start)
      dot == start + Len(whole)
      frac == IF dot <= Len(s) /\ s[dot] = "." THEN DigitRun(s, dot + 1) ELSE <<>>
      magnitude == Scale * DigitsValue(whole) + FractionValue(frac)
  IN IF whole = <<>> /\ frac = <<>> THEN NaN
     ELSE IF signed /\ s[i] = "-" THEN Num(0 - magnitude)
     ELSE Num(magnitude)

\* ToNumber, as isNaN and the comparisons < and > apply it to their operand
ToNumber(x) ==
  CASE x.t \in {"num", "nan"} -> x
    [] x.t = "null" -> Num(0)
    [] x.t = "bool" -> IF x.v THEN Num(Scale) ELSE Num(0)
    [] x.t = "str" -> IF x.v = <<>> THEN Num(0) ELSE parseFloat(x.v)
    [] x.t = "arr" ->
         IF x.v = <<>> THEN Num(0)
         ELSE IF Len(x.v) > 1 THEN NaN
         ELSE IF x.v[1].t \in {"num", "nan"} THEN x.v[1]
         ELSE IF x.v[1].t \in {"null", "undef"} THEN Num(0)
         ELSE IF x.v[1].t = "str"
           THEN (IF x.v[1].v = <<>> THEN Num(0) ELSE parseFloat(x.v[1].v))
         ELSE NaN
    [] OTHER -> NaN

\* variant of normalizeCoordinates whose bounds are exclusive
normalizeCoordinatesExclusive(lat, lng) ==
  LET latitude == ToNumber(IF IsString(lat) THEN parseFloat(lat.v) ELSE lat)
      longitude == ToNumber(IF IsString(lng) THEN parseFloat(lng.v) ELSE lng)
  IN IF latitude.t = "nan" \/ longitude.t = "nan" THEN Null
     ELSE IF \/ latitude.v <= 29 * Scale \/ latitude.v >= 31 * Scale
             \/ longitude.v <= -99 * Scale \/ longitude.v >= -97 * Scale
       THEN Null
     ELSE Obj([latitude |-> latitude, longitude |-> longitude])

normalizeCoordinates(lat, lng) ==
  LET latitude == IF IsString(lat) THEN parseFloat(lat.v) ELSE lat
      longitude == IF IsString(lng) THEN parseFloat(lng.v) ELSE lng
  IN IF \/ ToNumber(latitude).t = "nan"
        \/ ToNumber(longitude).t = "nan"
        \/ ToNumber(latitude).v < 29 * Scale
        \/ ToNumber(latitude).v > 31 * Scale
        \/ ToNumber(longitude).v < -99 * Scale
        \/ ToNumber(longitude).v > -97 * Scale
       THEN Null
     ELSE Obj([latitude |-> latitude, longitude |-> longitude])

TX == <<"T", "X">>

\* String.prototype.split(sep) for a one-character separator
RECURSIVE split(_, _)
split(s, sep) ==
  IF \A i \in 1..Len(s) : s[i] # sep THEN <<s>>
  ELSE LET at == CHOOSE i \in 1..Len(s) : s[i] = sep /\ \A k \in 1..(i - 1) : s[k] # sep
       IN <<SubSeq(s, 1, at - 1)>> \o split(SubSeq(s, at + 1, Len(s)), sep)

\* parts[index] of an array of strings; undefined past its end
At(parts, index) == IF index + 1 <= Len(parts) THEN Str(parts[index + 1]) ELSE Undefined

\* parts[3]?.split(" ")[index]
StateZipPart(parts, index) ==
  IF Len(parts) < 4 THEN Undefined ELSE At(split(parts[4], " "), index)

normalizeAddress(rawAddress) ==
  IF rawAddress.t \in {"obj", "arr"}
    THEN Obj([street |-> OrElse(Get(rawAddress, "street"), EmptyStr),
              city |-> OrElse(Get(rawAddress, "city"), EmptyStr),
              county |-> OrElse(Get(rawAddress, "county"), EmptyStr),
              state |-> OrElse(Get(rawAddress, "state"), Str(TX)),
              zipCode |-> OrElse(Get(rawAddress, "zipCode"), EmptyStr),
              coordinates |-> OrElse(Get(rawAddress, "coordinates"), Null)])
  ELSE IF rawAddress.t = "str"
    THEN LET pieces == split(rawAddress.v, ",")
             parts == [i \in 1..Len(pieces) |-> trim(pieces[i])]
         IN Obj([street |-> OrElse(At(parts, 0), EmptyStr),
                 city |-> OrElse(At(parts, 1), EmptyStr),
                 county |-> OrElse(At(parts, 2), EmptyStr),
                 state |-> OrElse(StateZipPart(parts, 0), Str(TX)),
                 zipCode |-> OrElse(StateZipPart(parts, 1), EmptyStr),
                 coordinates |-> Null])
  ELSE Obj([street |-> EmptyStr, city |-> EmptyStr, county |-> EmptyStr,
            state |-> Str(TX), zipCode |-> EmptyStr, coordinates |-> Null])

\* a price / area quotient, kept exact
Ratio(a, b) == [t |-> "ratio", n |-> a.v, d |-> b.v]

\* propertyData.x && propertyData.x > 0 for a numeric field
Positive(x) == x.t = "num" /\ x.v > 0

calculateDerivedFields(propertyData) ==
  LET price == Get(propertyData, "price")
      acreage == Get(propertyData, "acreage")
      squareFeet == Get(propertyData, "squareFeet")
      totalSquareFeet == Get(propertyData, "totalSquareFeet")
      perAcre == Truthy(price) /\ Positive(acreage)
      perFoot == Truthy(price) /\ Positive(squareFeet)
      perTotal == Truthy(price) /\ Positive(totalSquareFeet)
      keys == (IF perAcre THEN {"pricePerAcre"} ELSE {})
                \cup (IF perFoot \/ perTotal THEN {"pricePerSquareFoot"} ELSE {})
  IN Obj([k \in keys |->
            IF k = "pricePerAcre" THEN Ratio(price, acreage)
            ELSE IF perTotal THEN Ratio(price, totalSquareFeet)
            ELSE Ratio(price, squareFeet)])

\* Object.assign(target, source)
Assign(target, source) ==
  Obj([k \in DOMAIN target.v \cup DOMAIN source.v |->
         IF k \in DOMAIN source.v THEN source.v[k] ELSE target.v[k]])

\* ------------------------------------------------------ dataValidation.js
\* latitude / longitude bounds of the region, in thousandths of a degree
validateCoordinates(lat, lng) ==
  IF ~IsNumber(lat) \/ ~IsNumber(lng) THEN FALSE
  ELSE IF lat.t = "nan" \/ lng.t = "nan" THEN FALSE
  ELSE /\ lat.v >= 29 * Scale /\ lat.v <= 31 * Scale
       /\ lng.v >= -99 * Scale /\ lng.v <= -97 * Scale

validatePrice(price) ==
  IF ~IsNumber(price) THEN FALSE
  ELSE IF price.t = "nan" THEN FALSE
  ELSE price.v > 0

\* path is the dot path split at ".", e.g. <<"address", "county">>
RECURSIVE getNestedValue(_, _)
getNestedValue(obj, path) ==
  IF path = <<>> THEN obj
  ELSE IF obj.t \in {"null", "undef"} THEN Undefined
  ELSE getNestedValue(Get(obj, Head(path)), Tail(path))

\* variant of IsMissing that takes every falsy value for a missing one
IsMissingFalsy(value) == ~Truthy(value)

IsMissing(value) ==
  value.t \in {"undef", "null"} \/ (value.t = "str" /\ value.v = <<>>)

validateRequiredFields(data, requiredFields) ==
  LET missingFields ==
        SelectSeq(requiredFields, LAMBDA fieldPath : IsMissing(getNestedValue(data, fieldPath)))
  IN [isValid |-> missingFields = <<>>, missingFields |-> missingFields]

validateStatus(status) == IsString(status) /\ Includes(validStatuses, status.v)

landParcelRequiredFields ==
  << <<"source">>, <<"price">>, <<"status">>, <<"address", "county">> >>

\* variant of validateLandParcelData that stops at the first failed check
validateLandParcelDataShortCircuit(parcelData) ==
  LET fieldValidation == validateRequiredFields(parcelData, landParcelRequiredFields)
      priceValid == validatePrice(Get(parcelData, "price"))
  IN IF ~fieldValidation.isValid
       THEN [isValid |-> FALSE,
             errors |-> [missingFields |-> fieldValidation.missingFields,
                         invalidPrice |-> FALSE, invalidStatus |-> FALSE,
                         invalidCoordinates |-> FALSE]]
     ELSE [isValid |-> priceValid,
           errors |-> [missingFields |-> <<>>, invalidPrice |-> ~priceValid,
                       invalidStatus |-> FALSE, invalidCoordinates |-> FALSE]]

\* reading parcelData.price of null or undefined throws a TypeError
validateLandParcelData(parcelData) ==
  IF parcelData.t \in {"null", "undef"}
    THEN [tag |-> "error", kind |-> "type", at |-> "price", status |-> 0]
  ELSE
  LET fieldValidation == validateRequiredFields(parcelData, landParcelRequiredFields)
      priceValid == validatePrice(Get(parcelData, "price"))
      statusValid == validateStatus(Get(parcelData, "status"))
      coordinates == getNestedValue(parcelData, <<"address", "coordinates">>)
      coordinatesValid ==
        IF Truthy(coordinates)
          THEN validateCoordinates(Get(coordinates, "latitude"),
                                   Get(coordinates, "longitude"))
          ELSE TRUE
  IN [isValid |-> fieldValidation.isValid /\ priceValid /\ statusValid
                    /\ coordinatesValid,
      errors |-> [missingFields |-> fieldValidation.missingFields,
                  invalidPrice |-> ~priceValid,
                  invalidStatus |-> ~statusValid,
                  invalidCoordinates |-> ~coordinatesValid]]

validateCommercialPropertyData(propertyData) ==
  IF propertyData.t \in {"null", "undef"}
    THEN [tag |-> "error", kind |-> "type", at |-> "price", status |-> 0]
  ELSE
  LET fieldValidation == validateRequiredFields(propertyData, landParcelRequiredFields)
      priceValid == validatePrice(Get(propertyData, "price"))
      statusValid == validateStatus(Get(propertyData, "status"))
      coordinates == getNestedValue(propertyData, <<"address", "coordinates">>)
      coordinatesValid ==
        IF Truthy(coordinates)
          THEN validateCoordinates(Get(coordinates, "latitude"),
                                   Get(coordinates, "longitude"))
          ELSE TRUE
  IN [isValid |-> fieldValidation.isValid /\ priceValid /\ statusValid
                    /\ coordinatesValid,
      errors |-> [missingFields |-> fieldValidation.missingFields,
                  invalidPrice |-> ~priceValid,
                  invalidStatus |-> ~statusValid,
                  invalidCoordinates |-> ~coordinatesValid]]

\* the same text as validateCommercialPropertyData
validateResidentialPropertyData(propertyData) ==
  validateCommercialPropertyData(propertyData)

\* ---------------------------------------------------------- dataQuality.js
getRequiredFieldsForType(propertyType) ==
  LET baseFields == << <<"source">>, <<"price">>, <<"status">>, <<"address", "county">> >>
  IN CASE propertyType = "land" -> baseFields \o << <<"acreage">> >>
       [] propertyType = "commercial" ->
            baseFields \o << <<"propertyType">>, <<"totalSquareFeet">> >>
       [] propertyType = "residential" ->
            baseFields \o << <<"bedrooms">>, <<"bathrooms">>, <<"squareFeet">> >>
       [] OTHER -> baseFields

getDetailFieldsForType(propertyType) ==
  CASE propertyType = "land" ->
         << <<"zoning">>, <<"waterRights", "hasRights">>, <<"utilities", "electricity">>,
            <<"roadAccess">> >>
    [] propertyType = "commercial" ->
         << <<"zoning">>, <<"yearBuilt">>, <<"parkingSpaces">>,
            <<"proximityToInfrastructure", "highway", "distance">> >>
    [] propertyType = "residential" ->
         << <<"yearBuilt">>, <<"lotSize">>, <<"amenities">>,
            <<"schoolDistricts", "elementary">> >>
    [] OTHER -> <<>>

locationFields ==
  << <<"address", "street">>, <<"address", "city">>, <<"address", "county">>,
     <<"address", "coordinates", "latitude">>, <<"address", "coordinates", "longitude">> >>

marketFields == << <<"listingDate">>, <<"daysOnMarket">>, <<"status">> >>

seoFields == << <<"seoSlug">>, <<"description">>, <<"keywords">> >>

\* fields.filter(value !== undefined && value !== null && value !== "").length
PresentCount(data, fields) ==
  Len(SelectSeq(fields, LAMBDA field : ~IsMissing(getNestedValue(data, field))))

\* Math.round of the sum of the five weighted shares, each share a quotient
\* count / length; the sum is num / den; 0 / 0 for a type without detail
\* fields makes the score NaN
RoundedScore(required, requiredLen, location, details, detailsLen, market, seo) ==
  IF detailsLen = 0 THEN NaN
  ELSE LET den == requiredLen * detailsLen * 3
           num == required * 40 * detailsLen * 3
                    + location * 4 * den
                    + details * 20 * requiredLen * 3
                    + (market + seo) * 10 * requiredLen * detailsLen
       IN Num(Scale * ((2 * num + den) \div (2 * den)))

\* variant of calculateCompletenessScore that scores the required fields
\* that are missing
calculateCompletenessScoreInverted(data, propertyType) ==
  LET requiredFields == getRequiredFieldsForType(propertyType)
      detailFields == getDetailFieldsForType(propertyType)
  IN RoundedScore(Len(requiredFields) - PresentCount(data, requiredFields),
                  Len(requiredFields),
                  PresentCount(data, locationFields),
                  PresentCount(data, detailFields), Len(detailFields),
                  PresentCount(data, marketFields), PresentCount(data, seoFields))

calculateCompletenessScore(data, propertyType) ==
  LET requiredFields == getRequiredFieldsForType(propertyType)
      detailFields == getDetailFieldsForType(propertyType)
  IN RoundedScore(PresentCount(data, requiredFields), Len(requiredFields),
                  PresentCount(data, locationFields),
                  PresentCount(data, detailFields), Len(detailFields),
                  PresentCount(data, marketFields), PresentCount(data, seoFields))

\* ----------------------------------------------------- haysCADScraper.js
Arr(items) == [t |-> "arr", v |-> items]

\* decimal text of a natural number
RECURSIVE IntToText(_)
IntToText(n) ==
  LET digit == <<"0", "1", "2", "3", "4", "5", "6", "7", "8", "9">>
  IN IF n < 10 THEN <<digit[n + 1]>>
     ELSE IntToText(n \div 10) \o <<digit[(n % 10) + 1]>>

\* `${x}` for a string or a whole number
ToText(x) ==
  CASE x.t = "str" -> x.v
    [] x.t = "num" -> IntToText(x.v \div Scale)
    [] x.t = "null" -> <<"n","u","l","l">>
    [] OTHER -> <<"u","n","d","e","f","i","n","e","d">>

\* s.startsWith(prefix)
startsWith(s, prefix) ==
  Len(s) >= Len(prefix) /\ SubSeq(s, 1, Len(prefix)) = prefix

\* s.includes(sub)
includes(s, sub) ==
  \E i \in 1..(Len(s) - Len(sub) + 1) : SubSeq(s, i, i + Len(sub) - 1) = sub

HaysBaseUrl == <<"h","t","t","p","s",":","/","/","e","s","e","a","r","c","h",".","h","a","y","s","c","a","d",".","c","o","m">>

\* `${this.baseUrl}/Property/View/${propertyId}`
HaysPropertyUrl(propertyId) ==
  Str(HaysBaseUrl \o <<"/","P","r","o","p","e","r","t","y","/","V","i","e","w","/">> \o ToText(propertyId))

\* the placeholder record parsePropertyDetails returns for every page
HaysParsePropertyDetails(sourceUrl) ==
  Obj([parcelId |-> EmptyStr, propertyId |-> EmptyStr, legalDescription |-> EmptyStr,
       ownerName |-> EmptyStr, ownerAddress |-> EmptyStr,
       propertyAddress |-> EmptyStr, city |-> EmptyStr, zipCode |-> EmptyStr,
       landValue |-> EmptyStr, improvementValue |-> EmptyStr,
       marketValue |-> EmptyStr, assessedValue |-> EmptyStr,
       appraisedValue |-> EmptyStr, acreage |-> EmptyStr, landUse |-> EmptyStr,
       taxableValue |-> EmptyStr, totalTaxes |-> EmptyStr,
       agriculturalExemptions |-> Arr(<<>>), wildlifeManagement |-> Null,
       improvements |-> Arr(<<>>), sourceUrl |-> sourceUrl])

\* improvements.reduce((total, improvement) => total + (improvement.squareFeet || 0), 0)
RECURSIVE SumSquareFeet(_)
SumSquareFeet(items) ==
  IF items = <<>> THEN 0
  ELSE OrElse(Get(Head(items), "squareFeet"), Num(0)).v + SumSquareFeet(Tail(items))

calculateTotalSquareFeet(improvements) == Num(SumSquareFeet(improvements.v))

\* improvements.some((imp) => imp.type && imp.type.toLowerCase().includes(word))
SomeImprovement(improvements, word) ==
  \E i \in 1..Len(improvements.v) :
     LET type == Get(improvements.v[i], "type")
     IN Truthy(type) /\ includes(toLowerCase(type.v), word)

\* variant of HaysPropertyType that looks for a residential improvement first
HaysPropertyTypeResidentialFirst(improvements, acreage) ==
  LET hasResidential == SomeImprovement(improvements, <<"r","e","s","i","d","e","n","t","i","a","l">>)
      hasCommercial == SomeImprovement(improvements, <<"c","o","m","m","e","r","c","i","a","l">>)
  IN IF improvements.v = <<>> THEN Str(<<"l","a","n","d">>)
     ELSE IF hasResidential /\ acreage.v > 5 * Scale THEN Str(<<"r","e","s","i","d","e","n","t","i","a","l","-","l","u","x","u","r","y">>)
     ELSE IF hasResidential THEN Str(<<"r","e","s","i","d","e","n","t","i","a","l">>)
     ELSE IF hasCommercial THEN Str(<<"c","o","m","m","e","r","c","i","a","l">>)
     ELSE Str(<<"l","a","n","d">>)

HaysPropertyType(improvements, acreage) ==
  LET hasResidential == SomeImprovement(improvements, <<"r","e","s","i","d","e","n","t","i","a","l">>)
      hasCommercial == SomeImprovement(improvements, <<"c","o","m","m","e","r","c","i","a","l">>)
  IN IF improvements.v = <<>> THEN Str(<<"l","a","n","d">>)
     ELSE IF hasCommercial THEN Str(<<"c","o","m","m","e","r","c","i","a","l">>)
     ELSE IF hasResidential /\ acreage.v > 5 * Scale THEN Str(<<"r","e","s","i","d","e","n","t","i","a","l","-","l","u","x","u","r","y">>)
     ELSE IF hasResidential THEN Str(<<"r","e","s","i","d","e","n","t","i","a","l">>)
     ELSE Str(<<"l","a","n","d">>)

HaysNormalized(rawData, improvements, exemptions, acreage, first) ==
        Obj([source |-> Str(<<"h","a","y","s","c","a","d">>),
             parcelId |-> Str(<<"H","C","-">> \o ToText(Get(rawData, "parcelId"))),
             sourceUrl |-> Get(rawData, "sourceUrl"),
             propertyType |-> HaysPropertyType(improvements, acreage),
             status |-> normalizeStatus(Str(<<"a","c","t","i","v","e">>)),
             address |-> normalizeAddress(Obj(
               [street |-> Get(rawData, "propertyAddress"),
                city |-> OrElse(Get(rawData, "city"), Str(<<"S","a","n"," ","M","a","r","c","o","s">>)),
                county |-> Str(<<"H","a","y","s">>),
                state |-> Str(TX),
                zipCode |-> Get(rawData, "zipCode"),
                coordinates |-> Null])),
             price |-> normalizePrice(OrElse(Get(rawData, "marketValue"),
                                             Get(rawData, "appraisedValue"))),
             assessedValue |-> normalizePrice(OrElse(Get(rawData, "assessedValue"),
                                                     Get(rawData, "appraisedValue"))),
             taxableValue |-> normalizePrice(Get(rawData, "taxableValue")),
             landValue |-> normalizePrice(Get(rawData, "landValue")),
             improvementValue |-> normalizePrice(Get(rawData, "improvementValue")),
             acreage |-> acreage,
             squareFeet |-> IF first.t = "undef" THEN Num(0)
                            ELSE OrElse(Get(first, "squareFeet"), Num(0)),
             totalSquareFeet |-> calculateTotalSquareFeet(improvements),
             yearBuilt |-> IF first.t = "undef" THEN Null
                           ELSE OrElse(Get(first, "yearBuilt"), Null),
             landUse |-> Get(rawData, "landUse"),
             zoning |-> EmptyStr,
             owner |-> Obj([name |-> Get(rawData, "ownerName"),
                            address |-> Get(rawData, "ownerAddress")]),
             legalDescription |-> Get(rawData, "legalDescription"),
             taxes |-> Obj([annual |-> normalizePrice(Get(rawData, "totalTaxes")),
                            exemptions |-> exemptions]),
             agricultural |-> Obj([hasExemptions |-> Bool(exemptions.v # <<>>),
                                   exemptions |-> exemptions]),
             wildlifeManagement |-> Get(rawData, "wildlifeManagement"),
             improvements |-> improvements,
             waterRights |-> Null,
             utilities |-> Obj([water |-> Str(<<"u","n","k","n","o","w","n">>),
                                sewer |-> Str(<<"u","n","k","n","o","w","n">>),
                                electric |-> Str(<<"u","n","k","n","o","w","n">>),
                                gas |-> Str(<<"u","n","k","n","o","w","n">>)]),
             listingDate |-> [t |-> "date", v |-> now],
             lastUpdated |-> [t |-> "date", v |-> now]])

\* const derived = calculateDerivedFields(normalized);
\* Object.assign(normalized, derived)
WithDerivedFields(normalized0) ==
  Only({ Assign(normalized, calculateDerivedFields(normalized)) :
         normalized \in {normalized0} })

\* HaysCADScraper.normalize(rawData)
HaysNormalize(rawData0) ==
  WithDerivedFields(
    Only({ HaysNormalized(rawData, improvements, exemptions, acreage,
                          IF improvements.v = <<>> THEN Undefined ELSE improvements.v[1]) :
           rawData \in {rawData0},
           improvements \in {OrElse(Get(rawData0, "improvements"), Arr(<<>>))},
           exemptions \in {OrElse(Get(rawData0, "agriculturalExemptions"), Arr(<<>>))},
           acreage \in {normalizeAcreage(Get(rawData0, "acreage"))} }))



\* ------------------------------------------- session adapters (Travis, Williamson)
SessionAdapters == {"travis", "wcad"}

\* 15 * 60 * 1000
SessionTtlMs == 15 * 60 * 1000

\* a Set-Cookie header value: the cookie's name and value; name "" is no header
NoSetCookie == [name |-> "", value |-> <<>>]
SetCookies ==
  { NoSetCookie,
    [name |-> "ASP.NET_SessionId", value |-> <<"w","1">>],
    [name |-> "PHPSESSID", value |-> <<"p","1">>],
    [name |-> "csrftoken", value |-> <<"x">>] }

\* cookie.match(/(PHPSESSID|JSESSIONID|session_id)=([^;]+)/i) for Travis,
\* cookie.match(/(ASP\.NET_SessionId|JSESSIONID|session_id|SessionId)=([^;]+)/i)
\* for Williamson; null when nothing matches
extractSessionCookie(adapter, cookie) ==
  LET names == IF adapter = "travis"
                 THEN {"PHPSESSID", "JSESSIONID", "session_id"}
                 ELSE {"ASP.NET_SessionId", "JSESSIONID", "session_id", "SessionId"}
  IN IF cookie.name \in names THEN Str(cookie.value) ELSE Null

\* the placeholder parseSearchResults of each adapter
parseSearchResults(adapter) ==
  IF adapter = "hays"
    THEN Obj([properties |-> Arr(<<>>), currentPage |-> Num(Scale),
              totalPages |-> Num(Scale), totalResults |-> Num(0)])
    ELSE Arr(<<>>)

TravisBaseUrl == <<"h","t","t","p","s",":","/","/","s","t","a","g","e",".","t","r","a","v","i","s","c","a","d",".","o","r","g">>
WilliamsonBaseUrl == <<"h","t","t","p","s",":","/","/","w","w","w",".","w","c","a","d",".","o","r","g">>

\* the detail URL getPropertyDetails fetches for a string argument
detailUrl(adapter, propertyId) ==
  IF startsWith(propertyId.v, <<"h","t","t","p">>) THEN propertyId
  ELSE CASE adapter = "hays" -> HaysPropertyUrl(propertyId)
         [] adapter = "travis" -> Str(TravisBaseUrl \o <<"/","p","r","o","p","e","r","t","y","/">> \o propertyId.v)
         [] OTHER -> Str(WilliamsonBaseUrl \o <<"/","p","r","o","p","e","r","t","y","/">> \o propertyId.v)

TravisParsePropertyDetails ==
  Obj([parcelId |-> EmptyStr, legalDescription |-> EmptyStr, ownerName |-> EmptyStr,
       ownerAddress |-> EmptyStr, propertyAddress |-> EmptyStr, city |-> EmptyStr,
       zipCode |-> EmptyStr, landValue |-> EmptyStr, improvementValue |-> EmptyStr,
       marketValue |-> EmptyStr, assessedValue |-> EmptyStr, acreage |-> EmptyStr,
       squareFeet |-> EmptyStr, yearBuilt |-> EmptyStr, landUse |-> EmptyStr,
       taxableValue |-> EmptyStr, totalTaxes |-> EmptyStr, exemptions |-> Arr(<<>>),
       sourceUrl |-> EmptyStr])

WilliamsonParsePropertyDetails(sourceUrl) ==
  Obj([parcelId |-> EmptyStr, legalDescription |-> EmptyStr, ownerName |-> EmptyStr,
       ownerAddress |-> EmptyStr, propertyAddress |-> EmptyStr, city |-> EmptyStr,
       zipCode |-> EmptyStr, landValue |-> EmptyStr, improvementValue |-> EmptyStr,
       marketValue |-> EmptyStr, assessedValue |-> EmptyStr,
       appraisedValue |-> EmptyStr, acreage |-> EmptyStr, squareFeet |-> EmptyStr,
       yearBuilt |-> EmptyStr, landUse |-> EmptyStr, zoning |-> EmptyStr,
       taxableValue |-> EmptyStr, totalTaxes |-> EmptyStr, exemptions |-> Arr(<<>>),
       deedHistory |-> Arr(<<>>), ownershipChain |-> Arr(<<>>),
       waterRights |-> Null, sourceUrl |-> sourceUrl])

parsePropertyDetails(adapter, sourceUrl) ==
  CASE adapter = "hays" -> HaysParsePropertyDetails(sourceUrl)
    [] adapter = "travis" -> TravisParsePropertyDetails
    [] OTHER -> WilliamsonParsePropertyDetails(sourceUrl)

\* the object literal of TravisCADScraper.normalize
TravisNormalized(rawData) ==
  Obj([source |-> Str(<<"t","r","a","v","i","s","c","a","d">>),
       parcelId |-> Str(<<"T","C","-">> \o ToText(Get(rawData, "parcelId"))),
       sourceUrl |-> Get(rawData, "sourceUrl"),
       propertyType |-> Str(<<"l","a","n","d">>),
       status |-> normalizeStatus(Str(<<"a","c","t","i","v","e">>)),
       address |-> normalizeAddress(Obj(
         [street |-> Get(rawData, "propertyAddress"),
          city |-> OrElse(Get(rawData, "city"), Str(<<"A","u","s","t","i","n">>)),
          county |-> Str(<<"T","r","a","v","i","s">>),
          state |-> Str(TX),
          zipCode |-> Get(rawData, "zipCode"),
          coordinates |-> Null])),
       price |-> normalizePrice(Get(rawData, "marketValue")),
       assessedValue |-> normalizePrice(Get(rawData, "assessedValue")),
       taxableValue |-> normalizePrice(Get(rawData, "taxableValue")),
       landValue |-> normalizePrice(Get(rawData, "landValue")),
       improvementValue |-> normalizePrice(Get(rawData, "improvementValue")),
       acreage |-> normalizeAcreage(Get(rawData, "acreage")),
       squareFeet |-> OrElse(parseInt(Get(rawData, "squareFeet")), Num(0)),
       yearBuilt |-> OrElse(parseInt(Get(rawData, "yearBuilt")), Null),
       landUse |-> Get(rawData, "landUse"),
       zoning |-> EmptyStr,
       owner |-> Obj([name |-> Get(rawData, "ownerName"),
                      address |-> Get(rawData, "ownerAddress")]),
       legalDescription |-> Get(rawData, "legalDescription"),
       taxes |-> Obj([annual |-> normalizePrice(Get(rawData, "totalTaxes")),
                      exemptions |-> OrElse(Get(rawData, "exemptions"), Arr(<<>>))]),
       waterRights |-> Null,
       utilities |-> Obj([water |-> Str(<<"u","n","k","n","o","w","n">>), sewer |-> Str(<<"u","n","k","n","o","w","n">>),
                          electric |-> Str(<<"u","n","k","n","o","w","n">>), gas |-> Str(<<"u","n","k","n","o","w","n">>)]),
       listingDate |-> [t |-> "date", v |-> now],
       lastUpdated |-> [t |-> "date", v |-> now]])

\* the object literal of WilliamsonCADScraper.normalize
WilliamsonNormalized(rawData) ==
  Obj([source |-> Str(<<"w","i","l","l","i","a","m","s","o","n","c","a","d">>),
       parcelId |-> Str(<<"W","C","-">> \o ToText(Get(rawData, "parcelId"))),
       sourceUrl |-> Get(rawData, "sourceUrl"),
       propertyType |-> Str(<<"l","a","n","d">>),
       status |-> normalizeStatus(Str(<<"a","c","t","i","v","e">>)),
       address |-> normalizeAddress(Obj(
         [street |-> Get(rawData, "propertyAddress"),
          city |-> OrElse(Get(rawData, "city"), Str(<<"G","e","o","r","g","e","t","o","w","n">>)),
          county |-> Str(<<"W","i","l","l","i","a","m","s","o","n">>),
          state |-> Str(TX),
          zipCode |-> Get(rawData, "zipCode"),
          coordinates |-> Null])),
       price |-> normalizePrice(OrElse(Get(rawData, "marketValue"),
                                       Get(rawData, "appraisedValue"))),
       assessedValue |-> normalizePrice(OrElse(Get(rawData, "assessedValue"),
                                               Get(rawData, "appraisedValue"))),
       taxableValue |-> normalizePrice(Get(rawData, "taxableValue")),
       landValue |-> normalizePrice(Get(rawData, "landValue")),
       improvementValue |-> normalizePrice(Get(rawData, "improvementValue")),
       acreage |-> normalizeAcreage(Get(rawData, "acreage")),
       squareFeet |-> OrElse(parseInt(Get(rawData, "squareFeet")), Num(0)),
       yearBuilt |-> OrElse(parseInt(Get(rawData, "yearBuilt")), Null),
       landUse |-> Get(rawData, "landUse"),
       zoning |-> normalizeZoning(Get(rawData, "zoning")),
       owner |-> Obj([name |-> Get(rawData, "ownerName"),
                      address |-> Get(rawData, "ownerAddress")]),
       legalDescription |-> Get(rawData, "legalDescription"),
       taxes |-> Obj([annual |-> normalizePrice(Get(rawData, "totalTaxes")),
                      exemptions |-> OrElse(Get(rawData, "exemptions"), Arr(<<>>))]),
       deedHistory |-> OrElse(Get(rawData, "deedHistory"), Arr(<<>>)),
       ownershipChain |-> OrElse(Get(rawData, "ownershipChain"), Arr(<<>>)),
       waterRights |-> Get(rawData, "waterRights"),
       utilities |-> Obj([water |-> IF Truthy(Get(Get(rawData, "waterRights"), "hasWaterRights"))
                                      THEN Str(<<"y","e","s">>) ELSE Str(<<"u","n","k","n","o","w","n">>),
                          sewer |-> Str(<<"u","n","k","n","o","w","n">>),
                          electric |-> Str(<<"u","n","k","n","o","w","n">>), gas |-> Str(<<"u","n","k","n","o","w","n">>)]),
       listingDate |-> [t |-> "date", v |-> now],
       lastUpdated |-> [t |-> "date", v |-> now]])

\* this.normalize(rawData) of each adapter
normalize(adapter, rawData0) ==
  Only({ CASE adapter = "travis" -> WithDerivedFields(TravisNormalized(rawData))
           [] adapter = "wcad" -> WithDerivedFields(WilliamsonNormalized(rawData))
           [] OTHER -> HaysNormalize(rawData) :
         rawData \in {rawData0} })

\* what scrapeProperty returns once getPropertyDetails has returned rawData:
\* { data: normalized, validation: validateLandParcelData(normalized) }
ScrapeResult(adapter, rawData) ==
  Only({ [tag |-> "scrape", data |-> normalized,
          validation |-> validateLandParcelData(normalized)] :
         normalized \in {normalize(adapter, rawData)} })

\* --------------------------------------------------- adapter calls in flight
Statuses == {200, 301, 302, 401, 403, 404, 429, 500}

\* response.ok
Ok(status) == status >= 200 /\ status <= 299

NoResult == [tag |-> "none"]
Value(x) == [tag |-> "value", value |-> x]
NullResult == [tag |-> "null"]
\* new Error(`<what failed>: ${response.status}`)
HttpError(at, status) == [tag |-> "error", kind |-> "http", at |-> at, status |-> status]
\* what fetch rejects with (connection refused, timeout, ...)
NetworkError == [tag |-> "error", kind |-> "network", at |-> "fetch", status |-> 0]
\* propertyId.startsWith is not a function
TypeError == [tag |-> "error", kind |-> "type", at |-> "startsWith", status |-> 0]

\* pc: idle | admitted (waitForRateLimit resolved) | sleeping (inside its
\* setTimeout) | fetching (awaiting fetch) | done
\* top: the method the caller invoked; op: the method issuing the request;
\* req: handshake | search | probe | detail; after: what follows a handshake;
\* trace: the rate-limiter and fetch steps of the latest request; sent: fetches
\* issued by the call; tries: fetches of the method's own request since it was
\* entered; attempts: times the method was entered; cookie: the Cookie header
\* of the latest fetch; probed: how each searchByPropertyId of a batch by
\* sequential ids was answered, status 0 for a fetch that rejected; wakeAt: when the latest setTimeout of the current wait
\* fires, 0 when the wait has not slept; sentAt: when the latest fetch was
\* issued, kept by CallerSendAt only, -1 when none was
IdleCaller ==
  [pc |-> "idle", adapter |-> "none", top |-> "none", op |-> "none",
   arg |-> Undefined, req |-> "none", after |-> "none", wakeAt |-> 0,
   status |-> 0, trace |-> <<>>, sent |-> 0, tries |-> 0, attempts |-> 0,
   cookie |-> Null, sentAt |-> -1,
   result |-> NoResult, ids |-> <<>>, index |-> 0, results |-> <<>>, probed |-> <<>>]

\* the state one step of caller c reads and writes
Machine(c) ==
  [rec |-> callers[c], store |-> rateLimitStore, session |-> session,
   expiry |-> sessionExpiry, log |-> recordedLog]

Commit(c, m0) ==
  \E m \in {m0} :
    /\ callers' = [callers EXCEPT ![c] = m.rec]
    /\ rateLimitStore' = m.store
    /\ session' = m.session
    /\ sessionExpiry' = m.expiry
    /\ recordedLog' = m.log
    /\ UNCHANGED <<fetchVars, factoryVars, pureVars, mcpVars>>

\* one pass of the loop of waitForRateLimit(domain): admitted, or asleep for
\* config.windowMs
waitForRateLimit(m0, kind) ==
  Only({ [m EXCEPT !.store = canMakeRequestStore(m.store, domain, now),
                   !.rec = [m.rec EXCEPT !.pc = IF can THEN "admitted" ELSE "sleeping",
                                         !.req = kind,
                                         !.wakeAt = IF can THEN m.rec.wakeAt
                                                    ELSE now + getRateLimitConfig(domain).windowMs,
                                         !.trace = IF can THEN <<"await">> ELSE <<>>]] :
         m \in {m0}, domain \in {AdapterDomain[m0.rec.adapter]},
         can \in {canMakeRequest(m0.store, AdapterDomain[m0.rec.adapter], now)} })

\* recordRequest(this.domain) after the awaited fetch has returned
recordStep(m0, status) ==
  Only({ [m EXCEPT !.store = recordRequest(m.store, domain, now),
                   !.log = [m.log EXCEPT ![domain] = Append(@, now)],
                   !.rec = [m.rec EXCEPT !.status = status,
                                         !.trace = Append(@, "record")]] :
         m \in {m0}, domain \in {AdapterDomain[m0.rec.adapter]} })

MainKind(op) ==
  CASE op = "initSession" -> "handshake"
    [] op \in {"searchByAddress", "searchByParcelId"} -> "search"
    [] op = "searchByPropertyId" -> "probe"
    [] OTHER -> "detail"

\* variant of needsSession for which a session still holds at its expiry time
needsSessionLate(m) ==
  \/ ~Truthy(m.session[m.rec.adapter])
  \/ now > m.expiry[m.rec.adapter]

\* !this.session || Date.now() >= this.sessionExpiry (a null expiry compares as 0)
needsSession(m) ==
  \/ ~Truthy(m.session[m.rec.adapter])
  \/ now >= m.expiry[m.rec.adapter]

\* entry of searchByAddress / searchByParcelId / searchByPropertyId /
\* getPropertyDetails / initSession, up to its first await that suspends
beginOp(m0) ==
  Only({ IF m.rec.adapter \in SessionAdapters /\ m.rec.op # "initSession" /\ needsSession(m)
           THEN waitForRateLimit([m EXCEPT !.rec = [m.rec EXCEPT !.after = "main"]], "handshake")
           ELSE waitForRateLimit(m, MainKind(m.rec.op)) :
         m \in {[m0 EXCEPT !.rec = [m0.rec EXCEPT !.attempts = @ + 1, !.tries = 0,
                                                  !.after = "none"]]} })

\* variant of batchNext that gives up the batch at the first failed item
batchNextAbort(m0) ==
  Only({ IF m.rec.index > Len(m.rec.ids)
              \/ (m.rec.results # <<>> /\ ~m.rec.results[Len(m.rec.results)].success)
           THEN [m EXCEPT !.rec = [m.rec EXCEPT !.pc = "done", !.arg = Undefined,
                                                !.result = Value(Arr(m.rec.results))]]
           ELSE beginOp([m EXCEPT !.rec = [m.rec EXCEPT !.arg = m.rec.ids[m.rec.index],
                                                        !.status = 0, !.attempts = 0, !.sent = 0]]) :
         m \in {m0} })

\* the for-of loop of batchScrapeProperties at its next identifier
batchNext(m0) ==
  Only({ IF m.rec.index > Len(m.rec.ids)
           THEN [m EXCEPT !.rec = [m.rec EXCEPT !.pc = "done", !.arg = Undefined,
                                                !.result = Value(Arr(m.rec.results))]]
           ELSE beginOp([m EXCEPT !.rec = [m.rec EXCEPT !.arg = m.rec.ids[m.rec.index],
                                                        !.status = 0, !.attempts = 0, !.sent = 0]]) :
         m \in {m0} })

\* the result entry batchScrapeProperties pushes for one identifier
batchEntry(parcelId, res) ==
  IF res.tag = "error"
    THEN [parcelId |-> parcelId, success |-> FALSE, error |-> res]
    ELSE [parcelId |-> parcelId, success |-> TRUE, data |-> res.data,
          validation |-> res.validation]

\* variant of scrapeProperty that throws when validation fails
scrapePropertyRejectInvalid(adapter, res) ==
  IF res.tag = "error" THEN res
  ELSE Only({ IF scraped.validation.isValid THEN scraped
              ELSE [tag |-> "error", kind |-> "validation", at |-> "scrapeProperty",
                    status |-> 0] :
              scraped \in {ScrapeResult(adapter, res.value)} })

\* what scrapeProperty makes of the outcome of getPropertyDetails
scrapeProperty(adapter, res) ==
  IF res.tag = "error" THEN res ELSE ScrapeResult(adapter, res.value)

\* the for loop of batchScrapeBySequentialIds at its next propertyId
sequentialNext(m0) ==
  Only({ IF m.rec.index > Len(m.rec.ids)
           THEN [m EXCEPT !.rec = [m.rec EXCEPT !.pc = "done", !.arg = Undefined,
                                                !.result = Value(Arr(m.rec.results))]]
           ELSE beginOp([m EXCEPT !.rec = [m.rec EXCEPT !.op = "searchByPropertyId",
                                                        !.arg = m.rec.ids[m.rec.index],
                                                        !.status = 0, !.attempts = 0, !.sent = 0]]) :
         m \in {m0} })

\* the result entry batchScrapeBySequentialIds pushes for one propertyId
sequentialEntry(propertyId, res) ==
  IF res.tag = "error"
    THEN [propertyId |-> propertyId, success |-> FALSE, error |-> res]
    ELSE [propertyId |-> propertyId, success |-> TRUE, data |-> res.data,
          validation |-> res.validation]

\* variant of sequentialStep whose catch block ends the loop
sequentialStepStopsOnError(m0, out) ==
  Only({ IF m.rec.op = "searchByPropertyId" /\ out.tag = "null"
           THEN sequentialNext([m EXCEPT !.rec = [m.rec EXCEPT !.index = @ + 1]])
         ELSE IF m.rec.op = "searchByPropertyId" /\ out.tag = "value"
           THEN beginOp([m EXCEPT !.rec = [m.rec EXCEPT !.op = "getPropertyDetails",
                                                        !.arg = out.value]])
         ELSE IF out.tag = "error"
           THEN [m EXCEPT !.rec = [m.rec EXCEPT
                   !.results = Append(@, sequentialEntry(m.rec.ids[m.rec.index], out)),
                   !.pc = "done", !.arg = Undefined,
                   !.result = Value(Arr(Append(m.rec.results,
                                               sequentialEntry(m.rec.ids[m.rec.index], out))))]]
         ELSE sequentialNext([m EXCEPT !.rec = [m.rec EXCEPT
                !.results = Append(@, sequentialEntry(m.rec.ids[m.rec.index], out)),
                !.index = @ + 1]]) :
         m \in {[m0 EXCEPT !.rec = [m0.rec EXCEPT !.probed =
                   IF m0.rec.op # "searchByPropertyId" THEN @
                   ELSE Append(@, IF out = NetworkError THEN 0 ELSE m0.rec.status)]]} })

\* the body of the loop of batchScrapeBySequentialIds once searchByPropertyId
\* or scrapeProperty has settled with out: `continue` when there is no
\* property URL, scrapeProperty(propertyUrl) when there is one, a result entry
\* when scrapeProperty returned or either call threw
sequentialStep(m0, out) ==
  Only({ IF m.rec.op = "searchByPropertyId" /\ out.tag = "null"
           THEN sequentialNext([m EXCEPT !.rec = [m.rec EXCEPT !.index = @ + 1]])
         ELSE IF m.rec.op = "searchByPropertyId" /\ out.tag = "value"
           THEN beginOp([m EXCEPT !.rec = [m.rec EXCEPT !.op = "getPropertyDetails",
                                                        !.arg = out.value]])
         ELSE sequentialNext([m EXCEPT !.rec = [m.rec EXCEPT
                !.results = Append(@, sequentialEntry(m.rec.ids[m.rec.index], out)),
                !.index = @ + 1]]) :
         m \in {[m0 EXCEPT !.rec = [m0.rec EXCEPT !.probed =
                   IF m0.rec.op # "searchByPropertyId" THEN @
                   ELSE Append(@, IF out = NetworkError THEN 0 ELSE m0.rec.status)]]} })

\* the request method returned res (or threw it): unwind to the caller
complete(m0, res) ==
  Only({ IF m.rec.top = "batchScrapeProperties"
           THEN batchNext([m EXCEPT !.rec = [m.rec EXCEPT
                             !.results = Append(@, batchEntry(m.rec.arg, out)),
                             !.index = @ + 1]])
         ELSE IF m.rec.top = "batchScrapeBySequentialIds"
           THEN sequentialStep(m, out)
         ELSE [m EXCEPT !.rec = [m.rec EXCEPT !.pc = "done", !.result = out]] :
         m \in {m0},
         out \in {IF \/ m0.rec.top \in {"scrapeProperty", "batchScrapeProperties"}
                     \/ (m0.rec.top = "batchScrapeBySequentialIds"
                           /\ m0.rec.op = "getPropertyDetails")
                    THEN scrapeProperty(m0.rec.adapter, res) ELSE res} })

\* after initSession returned inside ensureValidSession
afterHandshake(m0) ==
  Only({ CASE m.rec.after = "main" -> waitForRateLimit(m, MainKind(m.rec.op))
           [] m.rec.after = "retry" -> beginOp(m)
           [] OTHER -> complete(m, Value(Undefined)) :
         m \in {m0} })

\* variant of sessionExpired that drops the token and retries without the
\* refresh in between
sessionExpiredNoRefresh(m0) ==
  Only({ beginOp([m EXCEPT !.session[m.rec.adapter] = Null]) : m \in {m0} })

\* Williamson on 401 / 403: this.session = null; await this.ensureValidSession();
\* return this.<same method>(<same argument>)
sessionExpired(m0) ==
  Only({ waitForRateLimit([m EXCEPT !.session[m.rec.adapter] = Null,
                                    !.rec = [m.rec EXCEPT !.after = "retry"]],
                          "handshake") :
         m \in {m0} })

retriesSession(adapter, status) == adapter = "wcad" /\ status \in {401, 403}

\* variant of responseResult whose probe throws on every status that is not ok
responseResultStrict(adapter, kind, status, arg) ==
  CASE kind = "handshake" ->
         IF ~Ok(status) THEN HttpError("initSession", status) ELSE Value(Undefined)
    [] kind = "search" ->
         IF ~Ok(status) THEN HttpError("search", status)
         ELSE Value(parseSearchResults(adapter))
    [] kind = "probe" ->
         IF ~Ok(status) THEN HttpError("probe", status)
         ELSE Value(HaysPropertyUrl(arg))
    [] OTHER ->
         IF ~Ok(status) THEN HttpError("detail", status)
         ELSE Value(parsePropertyDetails(adapter, detailUrl(adapter, arg)))

\* what the request method makes of a response it does not retry: the value it
\* returns or the error it throws
responseResult(adapter, kind, status, arg) ==
  CASE kind = "handshake" ->
         IF ~Ok(status) THEN HttpError("initSession", status) ELSE Value(Undefined)
    [] kind = "search" ->
         IF ~Ok(status) THEN HttpError("search", status)
         ELSE Value(parseSearchResults(adapter))
    [] kind = "probe" ->
         IF status = 404 THEN NullResult
         ELSE IF status = 301 \/ status = 302 THEN NullResult
         ELSE IF ~Ok(status) THEN HttpError("probe", status)
         ELSE Value(HaysPropertyUrl(arg))
    [] OTHER ->
         IF ~Ok(status) THEN HttpError("detail", status)
         ELSE Value(parsePropertyDetails(adapter, detailUrl(adapter, arg)))

\* the code after `await fetch(...)` once a response arrived
onResponse(m0, status, cookie) ==
  Only({
     IF kind = "handshake" /\ Ok(status)
       THEN afterHandshake(
              IF cookie.name # ""
                THEN [m EXCEPT !.session[a] = extractSessionCookie(a, cookie),
                               !.expiry[a] = now + SessionTtlMs]
                ELSE m)
     ELSE IF kind \in {"search", "detail"} /\ ~Ok(status) /\ retriesSession(a, status)
       THEN sessionExpired(m)
     ELSE complete(m, responseResult(a, kind, status, m.rec.arg)) :
     m \in {recordStep(m0, status)}, a \in {m0.rec.adapter}, kind \in {m0.rec.req} })

\* ----------------------------------------------------------------- actions
\* the clock advances by stepMs, maxTicks times at most
Tick(stepMs, maxTicks) ==
  /\ now < maxTicks * stepMs
  /\ now' = now + stepMs
  /\ UNCHANGED <<rateLimitStore, session, sessionExpiry, callers, recordedLog>>
  /\ UNCHANGED <<fetchVars, factoryVars, pureVars, mcpVars>>

\* caller c invokes adapter.top(arg), adapter.batchScrapeProperties(ids), or
\* adapter.batchScrapeBySequentialIds(startId, endId) with ids the propertyIds
\* from startId to endId
StartCall(c, adapter, top, arg, ids) ==
  /\ callers[c].pc = "idle"
  /\ \E op \in {IF top \in {"scrapeProperty", "batchScrapeProperties"}
                   THEN "getPropertyDetails"
                 ELSE IF top = "batchScrapeBySequentialIds" THEN "searchByPropertyId"
                 ELSE top} :
       \E m \in {[Machine(c) EXCEPT !.rec =
                    [IdleCaller EXCEPT !.adapter = adapter, !.top = top, !.op = op,
                                       !.arg = arg, !.ids = ids, !.index = 1]]} :
          Commit(c, IF top = "batchScrapeProperties" THEN batchNext(m)
                    ELSE IF top = "batchScrapeBySequentialIds" THEN sequentialNext(m)
                    ELSE beginOp(m))
  /\ UNCHANGED now

\* the setTimeout of waitForRateLimit fires and the loop tests again
CallerWake(c) ==
  /\ callers[c].pc = "sleeping"
  /\ now >= callers[c].wakeAt
  /\ Commit(c, waitForRateLimit(Machine(c), callers[c].req))
  /\ UNCHANGED now

\* the code between `await waitForRateLimit(...)` and `await fetch(...)`: the
\* request is issued, or building its url throws
sendStep(m0) ==
  Only({ IF m.rec.req = "detail" /\ ~IsString(m.rec.arg)
           THEN complete(m, TypeError)
           ELSE [m EXCEPT !.rec = [m.rec EXCEPT
                    !.pc = "fetching",
                    !.trace = Append(@, "fetch"),
                    !.sent = @ + 1,
                    !.tries = IF m.rec.req = MainKind(m.rec.op) THEN @ + 1 ELSE @,
                    !.cookie = IF m.rec.adapter \in SessionAdapters
                                      /\ m.rec.req # "handshake"
                                 THEN m.session[m.rec.adapter] ELSE Null]] :
         m \in {[m0 EXCEPT !.rec.wakeAt = 0]} })

\* variant of CallerSend that calls recordRequest before it sends the request
CallerSendRecordsFirst(c) ==
  /\ callers[c].pc = "admitted"
  /\ Commit(c, sendStep(recordStep(Machine(c), 0)))
  /\ UNCHANGED now

\* caller c, admitted by waitForRateLimit, issues its request
CallerSend(c) ==
  /\ callers[c].pc = "admitted"
  /\ Commit(c, sendStep(Machine(c)))
  /\ UNCHANGED now

\* variant of FetchThrows in which the rejected request is recorded as well
FetchThrowsRecorded(c) ==
  /\ callers[c].pc = "fetching"
  /\ Commit(c, complete(recordStep(Machine(c), callers[c].status), NetworkError))
  /\ UNCHANGED now

\* fetch rejects: control leaves the try block before recordRequest
FetchThrows(c) ==
  /\ callers[c].pc = "fetching"
  /\ Commit(c, complete(Machine(c), NetworkError))
  /\ UNCHANGED now

\* fetch resolves with a response of the given status (and Set-Cookie header)
FetchResponds(c, status, cookie) ==
  /\ callers[c].pc = "fetching"
  /\ callers[c].req # "handshake" => cookie = NoSetCookie
  /\ retriesSession(callers[c].adapter, status) /\ callers[c].req # "handshake"
       => callers[c].attempts < MaxAttempts
  /\ Commit(c, onResponse(Machine(c), status, cookie))
  /\ UNCHANGED now

InitScrape ==
  /\ now = 0
  /\ rateLimitStore = [d \in Domains |-> NoEntry]
  /\ session = [a \in SessionAdapters |-> Null]
  /\ sessionExpiry = [a \in SessionAdapters |-> 0]
  /\ callers = [c \in Callers |-> IdleCaller]
  /\ recordedLog = [d \in Domains |-> <<>>]

\* ------------------------------------------------- baseScraper.js: fetchWithRetry
\* fetchWithRetry is called with maxRetries from -1 to MaxRetriesBound
MaxRetriesBound == 3

\* how one `await fetch(...)` settles: a response, a rejection that is an
\* AbortError or names a timeout, or any other rejection
FetchOutcomes ==
  { [kind |-> "http", status |-> s] : s \in {200, 304, 404, 429, 500} }
    \cup { [kind |-> "timeout", status |-> 0], [kind |-> "network", status |-> 0] }

\* the Error fetchWithRetry has in hand after an attempt that failed:
\* new Error(`HTTP ${response.status}: ...`) or what fetch rejected with
AttemptError(outcome) ==
  [tag |-> "error", kind |-> outcome.kind, status |-> outcome.status]

\* new Error("Unknown error in fetchWithRetry")
UnknownError == [tag |-> "error", kind |-> "unknown", status |-> 0]

NoError == [tag |-> "none", kind |-> "none", status |-> 0]

Response(status) == [tag |-> "response", kind |-> "http", status |-> status]

\* what fetch rejects with once options.signal is aborted
AbortError == [kind |-> "abort", status |-> 0]

\* pc: idle | fetching (awaiting fetch) | sleeping (awaiting the backoff
\* timer) | returned | thrown; requests, slept, outcomes: history of the call;
\* aborted: options.signal.aborted; sleptAfterAbort: backoff sleeps begun
\* after the signal was aborted
IdleFetch ==
  [pc |-> "idle", maxRetries |-> 0, attempt |-> 0, lastError |-> NoError,
   requests |-> 0, slept |-> <<>>, outcomes |-> <<>>, result |-> NoError,
   aborted |-> FALSE, sleptAfterAbort |-> 0]

Min(a, b) == IF a <= b THEN a ELSE b

\* variant of backoffDelay without the 30 second cap
backoffDelayUncapped(attempt) == 1000 * 2^attempt

\* Math.min(1000 * Math.pow(2, attempt), 30000)
backoffDelay(attempt) == Min(1000 * 2^attempt, 30000)

\* variant of AttemptsRemain that is off by one
AttemptsRemainInclusive(attempt, maxRetries) == attempt <= maxRetries

\* attempt < maxRetries
AttemptsRemain(attempt, maxRetries) == attempt < maxRetries

\* await new Promise((resolve) => setTimeout(resolve, delay))
fwSleep(f) ==
  [f EXCEPT !.pc = "sleeping", !.slept = Append(@, backoffDelay(f.attempt)),
            !.sleptAfterAbort = IF f.aborted THEN @ + 1 ELSE @]

\* the catch block
fwCatch(f0, error) ==
  Only({ IF error.kind \in {"timeout", "abort"} /\ AttemptsRemain(f.attempt, f.maxRetries)
           THEN fwSleep(f)
         ELSE IF f.attempt = f.maxRetries
           THEN [f EXCEPT !.pc = "thrown", !.result = error]
         ELSE fwSleep(f) :
         f \in {[f0 EXCEPT !.lastError = error]} })

\* the head of the for loop: the next fetch while attempt <= maxRetries, else
\* throw lastError || new Error("Unknown error in fetchWithRetry"); fetch
\* called with a signal that is already aborted rejects without a request
fwLoop(f) ==
  IF f.attempt <= f.maxRetries
    THEN (IF f.aborted THEN fwCatch(f, AttemptError(AbortError))
          ELSE [f EXCEPT !.pc = "fetching", !.requests = @ + 1])
    ELSE [f EXCEPT !.pc = "thrown",
                   !.result = IF f.lastError.tag = "error" THEN f.lastError
                              ELSE UnknownError]

\* the try block once fetch has resolved with a response
fwResponse(f, status) ==
  IF Ok(status) THEN [f EXCEPT !.pc = "returned", !.result = Response(status)]
  ELSE IF status >= 400 /\ status < 500 /\ status # 429
    THEN fwCatch(f, AttemptError([kind |-> "http", status |-> status]))
  ELSE IF AttemptsRemain(f.attempt, f.maxRetries) THEN fwSleep(f)
  ELSE fwCatch(f, AttemptError([kind |-> "http", status |-> status]))

\* fetchWithRetry(url, options, maxRetries) is called
FwCall(maxRetries) ==
  /\ fw.pc = "idle"
  /\ fw' = fwLoop([IdleFetch EXCEPT !.maxRetries = maxRetries])
  /\ UNCHANGED <<scrapeVars, factoryVars, pureVars, mcpVars>>

\* the awaited fetch settles
FwSettle(outcome) ==
  /\ fw.pc = "fetching"
  /\ fw.aborted <=> outcome = AbortError
  /\ \E f \in {[fw EXCEPT !.outcomes = Append(@, outcome)]} :
       fw' = IF outcome.kind = "http" THEN fwResponse(f, outcome.status)
             ELSE fwCatch(f, AttemptError(outcome))
  /\ UNCHANGED <<scrapeVars, factoryVars, pureVars, mcpVars>>

\* the backoff timer fires: attempt++ and the loop test
FwWake ==
  /\ fw.pc = "sleeping"
  /\ fw' = fwLoop([fw EXCEPT !.attempt = @ + 1])
  /\ UNCHANGED <<scrapeVars, factoryVars, pureVars, mcpVars>>

\* the caller aborts the AbortController whose signal it passed in options
FwAbort ==
  /\ fw.pc \in {"fetching", "sleeping"}
  /\ ~fw.aborted
  /\ fw' = [fw EXCEPT !.aborted = TRUE]
  /\ UNCHANGED <<scrapeVars, factoryVars, pureVars, mcpVars>>

InitFetch == fw = IdleFetch

\* ------------------------------------------------------- scraperFactory.js
\* createScraper constructs MaxConstructed adapters at most
MaxConstructed == 2

\* a class; base: its prototype is an instance of BaseScraper
Class(name, base) == [t |-> "class", name |-> name, base |-> base]
\* what require() gives for a module whose module.exports is an object literal
ExportsObject(name) == [t |-> "exports", name |-> name, base |-> FALSE]
\* the function Object, and the object Object.prototype
ObjectFunction == [t |-> "function", name |-> "Object", base |-> FALSE]
ObjectPrototype == [t |-> "prototype", name |-> "Object.prototype", base |-> FALSE]

\* the object literal scraperRegistry, as the list of its own properties in
\* Object.keys order
BuiltinRegistry ==
  << [key |-> <<"t","r","a","v","i","s","c","a","d">>, value |-> ExportsObject("travisCADScraper")],
     [key |-> <<"h","a","y","s","c","a","d">>, value |-> ExportsObject("haysCADScraper")],
     [key |-> <<"m","l","s">>, value |-> Class("MLSScraper", TRUE)],
     [key |-> <<"z","o","n","i","n","g">>, value |-> Class("ZoningScraper", TRUE)] >>

\* Object.keys(scraperRegistry)
Keys(registry) == [i \in 1..Len(registry) |-> registry[i].key]

HasOwn(registry, key) == \E i \in 1..Len(registry) : registry[i].key = key

\* scraperRegistry[key]: the own property, else what the prototype chain
\* gives; proto is Object.prototype unless an assignment to __proto__ made a
\* class (a function object) the prototype
Lookup(registry, proto, key) ==
  IF HasOwn(registry, key)
    THEN registry[CHOOSE i \in 1..Len(registry) : registry[i].key = key].value
  ELSE IF key = <<"_","_","p","r","o","t","o","_","_">> THEN proto
  ELSE IF key = <<"c","o","n","s","t","r","u","c","t","o","r">>
    THEN (IF proto = ObjectPrototype THEN ObjectFunction
          ELSE [t |-> "function", name |-> "Function", base |-> FALSE])
  ELSE IF key = <<"n","a","m","e">> /\ proto.t = "class" THEN Str(<<"c","l","a","s","s"," ","n","a","m","e">>)
  ELSE IF key \in ObjectPrototypeKeys THEN InheritedValue
  ELSE Undefined

\* chars.join(", ") of a list of strings
RECURSIVE Join(_)
Join(names) ==
  IF names = <<>> THEN <<>>
  ELSE IF Len(names) = 1 THEN names[1]
  ELSE names[1] \o <<","," ">> \o Join(Tail(names))

\* new Error(`Unknown scraper source: ${source}. Available sources: ${...}`)
UnknownSourceError(source, registry) ==
  [tag |-> "error", kind |-> "unknown source", source |-> source,
   available |-> Join(Keys(registry))]

FactoryTypeError(what) ==
  [tag |-> "error", kind |-> "TypeError", source |-> Undefined, available |-> what]

FactoryError(message) ==
  [tag |-> "error", kind |-> "Error", source |-> Undefined, available |-> message]

\* what createScraper(source, options) returns or throws
createScraperOutcome(source, registry, proto) ==
  IF ~IsString(source) THEN FactoryTypeError(<<"s","o","u","r","c","e",".","t","o","L","o","w","e","r","C","a","s","e"," ","i","s"," ","n","o","t"," ","a"," ","f","u","n","c","t","i","o","n">>)
  ELSE Only({ IF ~Truthy(ScraperClass) THEN UnknownSourceError(source, registry)
              ELSE IF ScraperClass.t = "class"
                THEN [tag |-> "instance", kind |-> ScraperClass.name,
                      source |-> source, available |-> <<>>]
              ELSE IF ScraperClass.t = "function"
                THEN [tag |-> "object", kind |-> ScraperClass.name,
                      source |-> source, available |-> <<>>]
              ELSE FactoryTypeError(<<"S","c","r","a","p","e","r","C","l","a","s","s"," ","i","s"," ","n","o","t"," ","a"," ","c","o","n","s","t","r","u","c","t","o","r">>) :
              ScraperClass \in {Lookup(registry, proto, toLowerCase(source.v))} })

\* createScraper(source)
CreateScraper(source) ==
  \E outcome \in {createScraperOutcome(source, scraperRegistry, registryProto)} :
    /\ outcome.tag = "instance" => constructed < MaxConstructed
    /\ constructed' = IF outcome.tag = "instance" THEN constructed + 1 ELSE constructed
    /\ factory' = [op |-> "createScraper", source |-> source,
                   before |-> scraperRegistry, built |-> constructed,
                   outcome |-> outcome]
    /\ UNCHANGED <<scraperRegistry, registryProto, scrapeVars, fetchVars, pureVars, mcpVars>>

\* scraperRegistry[key] = ScraperClass for a key other than __proto__
SetOwn(registry, key, value) ==
  IF HasOwn(registry, key)
    THEN [i \in 1..Len(registry) |->
            IF registry[i].key = key THEN [key |-> key, value |-> value]
            ELSE registry[i]]
    ELSE Append(registry, [key |-> key, value |-> value])

\* what registerScraper(source, ScraperClass) throws, if anything
registerScraperError(source, ScraperClass) ==
  IF ~IsString(source) \/ ~Truthy(source)
    THEN FactoryError(<<"S","o","u","r","c","e"," ","i","d","e","n","t","i","f","i","e","r"," ","m","u","s","t"," ","b","e"," ","a"," ","n","o","n","-","e","m","p","t","y"," ","s","t","r","i","n","g">>)
  ELSE IF ~Truthy(ScraperClass) \/ ~ScraperClass.base
    THEN FactoryError(<<"S","c","r","a","p","e","r","C","l","a","s","s"," ","m","u","s","t"," ","e","x","t","e","n","d"," ","B","a","s","e","S","c","r","a","p","e","r">>)
  ELSE NoResult

\* registerScraper(source, ScraperClass)
RegisterScraper(source, ScraperClass) ==
  \E error \in {registerScraperError(source, ScraperClass)} :
    /\ scraperRegistry' =
         IF error.tag = "error" \/ toLowerCase(source.v) = <<"_","_","p","r","o","t","o","_","_">>
           THEN scraperRegistry
         ELSE SetOwn(scraperRegistry, toLowerCase(source.v), ScraperClass)
    \* the key __proto__ is the accessor of Object.prototype: the assignment
    \* replaces the prototype and adds no own property
    /\ registryProto' =
         IF error.tag # "error" /\ toLowerCase(source.v) = <<"_","_","p","r","o","t","o","_","_">>
           THEN ScraperClass
         ELSE registryProto
    /\ factory' = [op |-> "registerScraper", source |-> source,
                   before |-> scraperRegistry, built |-> constructed,
                   outcome |-> IF error.tag = "error" THEN error
                               ELSE [tag |-> "registered", kind |-> ScraperClass.name,
                                     source |-> source, available |-> <<>>]]
    /\ UNCHANGED <<constructed, scrapeVars, fetchVars, pureVars, mcpVars>>

\* getAvailableSources()
GetAvailableSources ==
  /\ factory' = [op |-> "getAvailableSources", source |-> Undefined,
                 before |-> scraperRegistry, built |-> constructed,
                 outcome |-> [tag |-> "keys", kind |-> "Array", source |-> Undefined,
                              available |-> Keys(scraperRegistry)]]
  /\ UNCHANGED <<scraperRegistry, registryProto, constructed, scrapeVars, fetchVars, pureVars, mcpVars>>

InitFactory ==
  /\ scraperRegistry = BuiltinRegistry
  /\ registryProto = ObjectPrototype
  /\ constructed = 0
  /\ factory = [op |-> "none", source |-> Undefined, before |-> BuiltinRegistry,
                built |-> 0, outcome |-> NoResult]

\* ------------------------------------------------------------- utils/ calls
\* ------------------------------------------------------------ handlers/api.js
\* GET /mcp/sse requests the model follows
MaxConnections == 3

Connections == 1..MaxConnections

\* new SSEServerTransport("/mcp/messages", res) for the response of request k
SSEServerTransport(k) == [t |-> "transport", res |-> k]

NoPost == [answer |-> "none", by |-> Null, open |-> {}]

\* `let transport = null` in the version of the handler named; a request is
\* none (not made) | importing (awaiting the dynamic import) | gone (closed
\* while importing) | open | closed
InitMcpOf(versions) ==
  /\ transport = Null
  /\ sseConnections = [k \in Connections |-> "none"]
  /\ sseOrder = <<>>
  /\ lastPost = NoPost
  /\ handler \in versions

InitMcp == InitMcpOf({"api"})

\* a call of fn(args) that has not run yet
PureCall(fn, args) == [fn |-> fn, args |-> args, done |-> FALSE, out |-> NoResult]

NoCall == PureCall("none", <<>>)

\* the pending call runs: out is what the function returns or throws
Returns(fn, value) ==
  /\ pure.fn = fn
  /\ ~pure.done
  /\ pure' = [pure EXCEPT !.done = TRUE, !.out = value]
  /\ UNCHANGED <<scrapeVars, fetchVars, factoryVars, mcpVars>>

InitPure == pure = NoCall

Init == InitScrape /\ InitFetch /\ InitFactory /\ InitMcp /\ InitPure

\* ------------------------------------------------------------------ SpecRate
\* NumCallers concurrent callers, one request each, sharing the rate limiter
RateCalls ==
  { <<"hays", "searchByAddress">>, <<"hays", "searchByPropertyId">>,
    <<"hays", "getPropertyDetails">>, <<"wcad", "initSession">> }

NextRate ==
  \/ Tick(TickMs, MaxTicks)
  \/ \E c \in Callers :
       \/ \E call \in RateCalls : StartCall(c, call[1], call[2], Str(<<"1","0","0","1">>), <<>>)
       \/ CallerWake(c)
       \/ CallerSend(c)
       \/ FetchThrows(c)
       \/ \E status \in Statuses, cookie \in SetCookies : FetchResponds(c, status, cookie)

SpecRate == Init /\ [][NextRate]_vars

\* C1: no two timestamps recorded for one domain are closer than windowMs
\* apart, whatever the number of callers running the request sequence at once
C1_RecordedSpacing ==
  \A d \in Domains :
    \A i, j \in 1..Len(recordedLog[d]) :
      i < j => recordedLog[d][j] - recordedLog[d][i] >= getRateLimitConfig(d).windowMs

\* ------------------------------------------------------------------ SpecWait
\* NumCallers concurrent callers of two adapters, one request each, answered
\* with success or a server error or not at all
WaitCalls == { <<"hays", "getPropertyDetails">>, <<"wcad", "initSession">> }

NextWait ==
  \/ Tick(TickMs, MaxTicks)
  \/ \E c \in Callers :
       \/ \E call \in WaitCalls : StartCall(c, call[1], call[2], Str(<<"1","0","0","1">>), <<>>)
       \/ CallerWake(c)
       \/ CallerSend(c)
       \/ FetchThrows(c)
       \/ \E status \in {200, 500} : FetchResponds(c, status, NoSetCookie)

SpecWait == Init /\ [][NextWait]_vars

\* caller c, asleep in waitForRateLimit, takes a step: its timer has fired
\* and the loop has tested canMakeRequest again
Rechecks(c) == callers[c].pc = "sleeping" /\ callers'[c] # callers[c]

\* timestamps recorded for the caller's domain later than its failed check
RecordedSince(c) ==
  LET d == AdapterDomain[callers[c].adapter]
  IN { i \in 1..Len(recordedLog[d]) :
         recordedLog[d][i] > callers[c].wakeAt - getRateLimitConfig(d).windowMs }

\* C26: a caller waiting in waitForRateLimit tests admission again only after
\* windowMs has passed since its failed test, and unless another request for
\* the domain has been recorded meanwhile, that first test admits it
C26_AdmittedAtFirstRecheck ==
  [][\A c \in Callers :
       Rechecks(c) =>
         /\ now >= callers[c].wakeAt
         /\ RecordedSince(c) = {} => callers'[c].pc = "admitted"]_vars

\* a caller admitted by its first re-check, one window after the failed test,
\* with nothing recorded for the domain since that test
C26_Witness ==
  \E c \in Callers :
    /\ callers[c].pc = "admitted"
    /\ callers[c].wakeAt > 0
    /\ now = callers[c].wakeAt
    /\ RecordedSince(c) = {}
    /\ recordedLog[AdapterDomain[callers[c].adapter]] # <<>>

\* --------------------------------------------------------------- SpecAdapter
\* one caller making adapter calls one after the other
MaxAdapterTicks == 6

\* identifiers handed to the adapters: a bare id, a full URL, a number
AdapterArgs == { Str(<<"1","0","0","1">>), Str(<<"h","t","t","p",":","/","/","h","/","7">>), Num(7 * Scale) }

\* the parcelIds arrays handed to batchScrapeProperties: every array of up to
\* MaxBatch identifiers for Hays; the empty array and every one-identifier
\* array for the session adapters
BatchIds(adapter) ==
  UNION { [1..n -> AdapterArgs] : n \in 0..(IF adapter = "hays" THEN MaxBatch ELSE 1) }

AdapterCalls ==
  ({"hays"} \X {"searchByAddress", "searchByParcelId", "searchByPropertyId",
                "getPropertyDetails", "scrapeProperty"})
  \cup (SessionAdapters \X {"initSession", "searchByAddress", "searchByParcelId",
                            "getPropertyDetails", "scrapeProperty"})

\* statuses a probe with redirect: "manual" can see, beyond Statuses
ProbeStatuses == {204, 307}

NextAdapter ==
  \/ Tick(defaultConfig.windowMs, MaxAdapterTicks)
  \/ \E call \in AdapterCalls, arg \in AdapterArgs :
       StartCall(1, call[1], call[2], arg, <<>>)
  \/ \E adapter \in Adapters :
       \E ids \in BatchIds(adapter) :
          StartCall(1, adapter, "batchScrapeProperties", Undefined, ids)
  \/ CallerWake(1)
  \/ CallerSend(1)
  \/ FetchThrows(1)
  \/ \E status \in Statuses, cookie \in SetCookies : FetchResponds(1, status, cookie)
  \/ \E status \in ProbeStatuses :
       callers[1].req = "probe" /\ FetchResponds(1, status, NoSetCookie)

SpecAdapter == Init /\ [][NextAdapter]_vars

\* the method's own request was answered: the latest request of caller c went
\* through waitForRateLimit, fetch and recordRequest
Answered(c) == callers[c].trace = <<"await", "fetch", "record">>

\* C4: a session adapter's search or detail call is entered at most twice (the
\* call and one retry after a 401 / 403), however often the server answers 403
C4_AtMostOneRetry ==
  \A c \in Callers :
    (callers[c].adapter \in SessionAdapters
       /\ callers[c].op \in {"searchByAddress", "searchByParcelId", "getPropertyDetails"})
      => callers[c].attempts <= 2

C6_RetriedBeforeFailing ==
  \A c \in Callers :
    (/\ callers[c].pc = "done"
     /\ callers[c].top \in {"searchByAddress", "searchByParcelId", "getPropertyDetails"}
     /\ callers[c].req \in {"search", "detail"}
     /\ callers[c].result.tag = "error"
     /\ \/ callers[c].result.kind = "network"
        \/ callers[c].result.kind = "http" /\ callers[c].result.status \in {429, 500})
      => callers[c].tries >= 2

\* C7: batchScrapeProperties holds one entry per identifier handled so far, entry
\* i carrying identifier i and either data with validation or the error; it
\* returns the entries of all identifiers and throws nothing
C7_BatchResults ==
  \A c \in Callers :
    callers[c].top = "batchScrapeProperties" =>
      /\ Len(callers[c].results) <= Len(callers[c].ids)
      /\ \A i \in 1..Len(callers[c].results) :
           /\ callers[c].results[i].parcelId = callers[c].ids[i]
           /\ IF callers[c].results[i].success
                THEN {"data", "validation"} \subseteq DOMAIN callers[c].results[i]
                ELSE callers[c].results[i].error.tag = "error"
      /\ callers[c].pc # "done" => callers[c].index = Len(callers[c].results) + 1
      /\ callers[c].pc = "done" =>
           /\ Len(callers[c].results) = Len(callers[c].ids)
           /\ callers[c].result = Value(Arr(callers[c].results))

C7_Witness ==
  \E c \in Callers :
    /\ callers[c].top = "batchScrapeProperties"
    /\ callers[c].pc = "done"
    /\ Len(callers[c].ids) = 2
    /\ callers[c].ids[1] # callers[c].ids[2]
    /\ ~callers[c].result.value.v[1].success
    /\ callers[c].result.value.v[2].success

\* C8: searchByPropertyId returns null on 404, 301 and 302, the detail URL
\* baseUrl/Property/View/{id} on 200, and throws on every other status that is
\* not 2xx
C8_ProbeOutcome ==
  \A c \in Callers :
    (callers[c].top = "searchByPropertyId" /\ callers[c].pc = "done" /\ Answered(c)) =>
      /\ callers[c].status \in {404, 301, 302} => callers[c].result = NullResult
      /\ callers[c].status = 200 =>
           /\ callers[c].result.tag = "value"
           /\ callers[c].result.value =
                Str(<<"h","t","t","p","s",":","/","/","e","s","e","a","r","c","h",".","h","a","y","s","c","a","d",".","c","o","m","/","P","r","o","p","e","r","t","y","/","V","i","e","w","/">> \o ToText(callers[c].arg))
      /\ (callers[c].status \notin {404, 301, 302} /\ ~Ok(callers[c].status)) =>
           /\ callers[c].result.tag = "error"
           /\ callers[c].result.status = callers[c].status

C8_Witness ==
  \E c \in Callers :
    /\ callers[c].top = "searchByPropertyId"
    /\ callers[c].pc = "done"
    /\ callers[c].status = 404
    /\ callers[c].result = NullResult

\* C9: scrapeProperty whose detail request was answered 2xx returns the
\* normalized record with its validation result, valid or not; a batch entry
\* fails only on a request or type error, never on validation
C9_InvalidRecordReturned ==
  \A c \in Callers :
    /\ (/\ callers[c].top = "scrapeProperty"
        /\ callers[c].pc = "done"
        /\ callers[c].req = "detail"
        /\ Answered(c)
        /\ Ok(callers[c].status)) =>
         /\ callers[c].result.tag = "scrape"
         /\ callers[c].result.data.t = "obj"
         /\ callers[c].result.validation = validateLandParcelData(callers[c].result.data)
    /\ \A i \in 1..Len(callers[c].results) :
         IF callers[c].results[i].success
           THEN /\ callers[c].results[i].data.t = "obj"
                /\ callers[c].results[i].validation =
                     validateLandParcelData(callers[c].results[i].data)
           ELSE /\ callers[c].results[i].error.kind \in {"http", "network", "type"}
                /\ callers[c].results[i].error.kind = "http" =>
                     ~Ok(callers[c].results[i].error.status)

C9_Witness ==
  \E c \in Callers :
    /\ callers[c].top = "scrapeProperty"
    /\ callers[c].pc = "done"
    /\ callers[c].result.tag = "scrape"
    /\ ~callers[c].result.validation.isValid
    /\ callers[c].result.data.v.price = Num(0)

\* the step in which caller c receives a 401 or 403 answer to a search or
\* detail request of a session adapter
RejectedStep(c) ==
  /\ callers[c].pc = "fetching"
  /\ callers[c].adapter \in SessionAdapters
  /\ callers[c].req \in {"search", "detail"}
  /\ recordedLog' # recordedLog
  /\ callers'[c].status \in {401, 403}

\* C13: when a search or detail request of a session adapter is answered with
\* 401 or 403, the adapter's stored session token is cleared in that step
C13_ClearedOnRejection ==
  [][\A c \in Callers : RejectedStep(c) => session'[callers[c].adapter] = Null]_vars

\* --------------------------------------------------------------- SpecSession
\* NumCallers concurrent calls on the one instance of a session adapter
SessionCalls == SessionAdapters \X {"searchByAddress", "getPropertyDetails"}

SessionStatuses == {200, 403, 500}

NextSession ==
  \/ Tick(TickMs, MaxTicks)
  \/ \E c \in Callers :
       \/ \E call \in SessionCalls : StartCall(c, call[1], call[2], Str(<<"1","0","0","1">>), <<>>)
       \/ CallerWake(c)
       \/ CallerSend(c)
       \/ FetchThrows(c)
       \/ \E status \in SessionStatuses, cookie \in SetCookies :
            FetchResponds(c, status, cookie)

SpecSession == Init /\ [][NextSession]_vars

\* the homepage request of initSession, sent by caller c, is in flight
HandshakeInFlight(c) ==
  /\ callers[c].pc = "fetching"
  /\ callers[c].req = "handshake"
  /\ callers[c].adapter \in SessionAdapters

\* C14: a handshake is in flight for an adapter instance only while the
\* instance has no valid session, and never two at once for one instance
C14_OneHandshake ==
  \A c \in Callers :
    HandshakeInFlight(c) =>
      /\ ~Truthy(session[callers[c].adapter]) \/ now >= sessionExpiry[callers[c].adapter]
      /\ \A other \in Callers \ {c} :
           ~(HandshakeInFlight(other) /\ callers[other].adapter = callers[c].adapter)

\* --------------------------------------------------------------- SpecBackoff
\* fetchWithRetry called with up to MaxBackoffRetries retries, enough for the
\* backoff delay to reach its cap
MaxBackoffRetries == 6

\* the outcomes of an attempt that the retry policy names: success, 429, 5xx,
\* timeout, another network error
BackoffOutcomes ==
  { [kind |-> "http", status |-> s] : s \in {200, 429, 500} }
    \cup { [kind |-> "timeout", status |-> 0], [kind |-> "network", status |-> 0] }

NextBackoff ==
  \/ \E maxRetries \in (0 - 1)..MaxBackoffRetries : FwCall(maxRetries)
  \/ \E outcome \in BackoffOutcomes \cup {AbortError} : FwSettle(outcome)
  \/ FwWake
  \/ FwAbort

SpecBackoff == Init /\ [][NextBackoff]_vars

MaxLifeTicks == 3

LifecycleStatuses == {200, 403}

NextLifecycle ==
  \/ Tick(SessionTtlMs \div 2, MaxLifeTicks)
  \/ \E c \in Callers :
       \/ /\ \A other \in Callers : other < c => callers[other].pc = "done"
          /\ \E call \in SessionCalls :
               StartCall(c, call[1], call[2], Str(<<"1","0","0","1">>), <<>>)
       \/ CallerWake(c)
       \/ CallerSend(c)
       \/ FetchThrows(c)
       \/ \E status \in LifecycleStatuses, cookie \in SetCookies :
            FetchResponds(c, status, cookie)

SpecLifecycle == Init /\ [][NextLifecycle]_vars

\* the step in which a search or detail method of a session adapter is
\* entered by caller c and runs ensureValidSession
Enters(c) ==
  /\ callers'[c].attempts = callers[c].attempts + 1
  /\ callers'[c].adapter \in SessionAdapters
  /\ callers'[c].op # "initSession"

\* the step in which caller c begins a homepage handshake
BeginsHandshake(c) ==
  /\ callers[c].pc \in {"idle", "fetching"}
  /\ callers'[c].pc \in {"admitted", "sleeping"}
  /\ callers'[c].req = "handshake"

\* the step in which caller c sends its search or detail request
SendsRequest(c) ==
  /\ callers[c].pc = "admitted"
  /\ callers'[c].pc = "fetching"
  /\ callers[c].adapter \in SessionAdapters
  /\ callers[c].req \in {"search", "detail"}

\* at the end of the step the adapter holds no token, or its session expired
NoSessionNow(adapter) ==
  \/ session'[adapter] = Null
  \/ now' >= sessionExpiry'[adapter]

\* C28: a search or detail call begins a homepage handshake exactly when the
\* adapter holds no session token or the time has reached sessionExpiry; with
\* a token held and not expired it begins none, and the request it sends
\* carries the stored token as its cookie
C28_SessionLifecycle ==
  [][\A c \in Callers :
       /\ Enters(c) => (BeginsHandshake(c) <=> NoSessionNow(callers'[c].adapter))
       /\ BeginsHandshake(c) => NoSessionNow(callers'[c].adapter)
       /\ (SendsRequest(c) /\ session[callers[c].adapter] # Null) =>
            callers'[c].cookie = session[callers[c].adapter]]_vars

\* one call has made its handshake and sent its request with the stored
\* token; a later call on the same adapter finds the session expired and
\* begins a handshake of its own
C28_Witness ==
  \E first, second \in Callers :
    /\ first # second
    /\ callers[first].adapter = callers[second].adapter
    /\ callers[first].adapter \in SessionAdapters
    /\ callers[first].pc = "done"
    /\ callers[first].sent = 2
    /\ callers[first].cookie # Null
    /\ callers[first].cookie = session[callers[first].adapter]
    /\ callers[second].req = "handshake"
    /\ callers[second].pc \in {"admitted", "fetching"}
    /\ callers[second].sent <= 1
    /\ now = sessionExpiry[callers[first].adapter]

\* ------------------------------------------------------------ SpecSequential
\* batchScrapeBySequentialIds over ranges of up to MaxRange propertyIds
MaxRange == 3

\* the values the loop variable propertyId takes from startId to endId
IdRange(startId, endId) ==
  [i \in 1..(endId - startId + 1) |-> Num((startId + i - 1) * Scale)]

SequentialStatuses == {200, 301, 302, 404, 500}

NextSequential ==
  \/ Tick(defaultConfig.windowMs, MaxAdapterTicks)
  \/ \E endId \in 1000..(1000 + MaxRange) :
       StartCall(1, "hays", "batchScrapeBySequentialIds", Undefined, IdRange(1001, endId))
  \/ CallerWake(1)
  \/ CallerSend(1)
  \/ FetchThrows(1)
  \/ \E status \in SequentialStatuses : FetchResponds(1, status, NoSetCookie)

SpecSequential == Init /\ [][NextSequential]_vars

\* the statuses by which a probe reports that the property does not exist
NonExistence == {404, 301, 302}

\* positions in the range whose propertyId the loop has left behind and
\* whose probe did not report non-existence
Reported(c) ==
  { i \in 1..(callers[c].index - 1) : callers[c].probed[i] \notin NonExistence }

\* the j-th smallest element of a set of numbers
NthOf(S, j) == CHOOSE i \in S : Cardinality({k \in S : k < i}) = j - 1

\* C29: batchScrapeBySequentialIds probes the propertyIds of the range one by
\* one in ascending order; a propertyId whose probe answers 404, 301 or 302
\* adds no entry; every other one adds exactly one entry, with data and
\* validation or with the error; the entries are in ascending order, and the
\* call ends only after the last propertyId, returning the entries
C29_SequentialBatch ==
  \A c \in Callers :
    callers[c].top = "batchScrapeBySequentialIds" =>
      /\ callers[c].index \in 1..(Len(callers[c].ids) + 1)
      /\ Len(callers[c].probed) \in {callers[c].index - 1, callers[c].index}
      /\ (callers[c].pc # "done" /\ callers[c].req = "probe") =>
           /\ callers[c].arg = callers[c].ids[callers[c].index]
           /\ Len(callers[c].probed) = callers[c].index - 1
      /\ Len(callers[c].results) = Cardinality(Reported(c))
      /\ \A j \in 1..Len(callers[c].results) :
           /\ callers[c].results[j].propertyId = callers[c].ids[NthOf(Reported(c), j)]
           /\ IF callers[c].results[j].success
                THEN {"data", "validation"} \subseteq DOMAIN callers[c].results[j]
                ELSE callers[c].results[j].error.tag = "error"
      /\ callers[c].pc = "done" =>
           /\ callers[c].index = Len(callers[c].ids) + 1
           /\ Len(callers[c].probed) = Len(callers[c].ids)
           /\ callers[c].result = Value(Arr(callers[c].results))

\* a range of three: the first propertyId does not exist, the probe of the
\* second fails, the third is scraped; the call returns two entries
C29_Witness ==
  \E c \in Callers :
    /\ callers[c].top = "batchScrapeBySequentialIds"
    /\ callers[c].pc = "done"
    /\ callers[c].probed = <<404, 500, 200>>
    /\ Len(callers[c].results) = 2
    /\ callers[c].results[1].propertyId = Num(1002 * Scale)
    /\ ~callers[c].results[1].success
    /\ callers[c].results[2].propertyId = Num(1003 * Scale)
    /\ callers[c].results[2].success

\* ------------------------------------------------------------------ SpecFetch
NextFetch ==
  \/ \E maxRetries \in (0 - 1)..MaxRetriesBound : FwCall(maxRetries)
  \/ \E outcome \in FetchOutcomes : FwSettle(outcome)
  \/ FwWake

SpecFetch == Init /\ [][NextFetch]_vars

IsClientError(outcome) ==
  outcome.kind = "http" /\ outcome.status >= 400 /\ outcome.status < 500
    /\ outcome.status # 429

\* C2: a call whose first response is a 4xx other than 429 has failed with that
\* HTTP error after one request and no backoff sleep
C2_FailsOnFirst4xx ==
  (fw.outcomes # <<>> /\ IsClientError(fw.outcomes[1])) =>
     /\ fw.pc = "thrown"
     /\ fw.requests = 1
     /\ fw.slept = <<>>
     /\ fw.result = AttemptError(fw.outcomes[1])

IsOkOutcome(outcome) == outcome.kind = "http" /\ Ok(outcome.status)

\* C3: fetchWithRetry issues at most maxRetries + 1 requests; a 2xx response
\* ends the call at once with that response; once it has thrown, the error is
\* that of the last attempt, and maxRetries + 1 requests were issued if every
\* attempt ended in 429, 5xx, timeout or network error
C3_BoundedRetry ==
  /\ fw.requests <= (IF fw.maxRetries < 0 THEN 0 ELSE fw.maxRetries + 1)
  /\ Len(fw.outcomes) <= fw.requests
  /\ fw.pc \in {"returned", "thrown", "sleeping"} => Len(fw.outcomes) = fw.requests
  /\ fw.pc = "sleeping" => fw.attempt < fw.maxRetries
  /\ \A i \in 1..Len(fw.outcomes) :
       IsOkOutcome(fw.outcomes[i]) =>
         /\ i = Len(fw.outcomes)
         /\ fw.pc = "returned"
         /\ fw.result = Response(fw.outcomes[i].status)
  /\ fw.pc = "returned" => IsOkOutcome(fw.outcomes[Len(fw.outcomes)])
  /\ (fw.pc = "thrown" /\ fw.outcomes # <<>>) =>
       /\ fw.result = AttemptError(fw.outcomes[Len(fw.outcomes)])
       /\ (\A i \in 1..Len(fw.outcomes) : ~IsClientError(fw.outcomes[i]))
            => fw.requests = fw.maxRetries + 1

C3_Witness ==
  /\ fw.pc = "thrown"
  /\ fw.maxRetries = 2
  /\ fw.requests = 3
  /\ fw.outcomes[1].status = 500
  /\ fw.outcomes[2].kind = "network"
  /\ fw.outcomes[3].status = 429
  /\ fw.result.status = 429

\* ---------------------------------------------------------------- SpecFactory
\* arguments handed to createScraper and registerScraper
FactorySources ==
  { Str(<<"h","a","y","s","c","a","d">>), Str(<<"M","L","S">>), Str(<<"w","i","l","c","o">>),
    Str(<<"c","o","n","s","t","r","u","c","t","o","r">>), Str(<<"_","_","p","r","o","t","o","_","_">>), EmptyStr, Num(7 * Scale) }

FactoryClasses ==
  { Class("WilliamsonCADScraper", TRUE), Class("Date", FALSE), Null }

NextFactory ==
  \/ \E source \in FactorySources : CreateScraper(source)
  \/ \E source \in FactorySources, ScraperClass \in FactoryClasses :
       RegisterScraper(source, ScraperClass)
  \/ GetAvailableSources

SpecFactory == Init /\ [][NextFactory]_vars

\* C10: createScraper(source) for a string that names no registered source
\* throws the error listing the registered sources, constructs nothing and
\* leaves the registry as it was
C10_UnknownSourceListed ==
  (/\ factory.op = "createScraper"
   /\ IsString(factory.source)
   /\ ~HasOwn(factory.before, toLowerCase(factory.source.v))) =>
     /\ factory.outcome.tag = "error"
     /\ factory.outcome.kind = "unknown source"
     /\ factory.outcome.available = Join(Keys(factory.before))
     /\ constructed = factory.built
     /\ scraperRegistry = factory.before

\* an identifier as written, in lower case and in upper case
CaseVariants(id) == {id, toLowerCase(id), toUpperCase(id)}

\* C11: after registerScraper(id, C) succeeded, getAvailableSources() holds the
\* lower-cased id, createScraper builds an instance of C for every letter-case
\* variant of id, and every other registered id still gives what it gave
C11_RegisteredIsCreatable ==
  (factory.op = "registerScraper" /\ factory.outcome.tag = "registered") =>
    \E id \in {toLowerCase(factory.source.v)} :
      /\ Includes(Keys(scraperRegistry), id)
      /\ \A variant \in CaseVariants(factory.source.v) :
           \E made \in {createScraperOutcome(Str(variant), scraperRegistry, registryProto)} :
             made.tag = "instance" /\ made.kind = factory.outcome.kind
      /\ \A i \in 1..Len(factory.before) :
           factory.before[i].key # id =>
             Lookup(scraperRegistry, registryProto, factory.before[i].key)
               = factory.before[i].value

\* --------------------------------------------------------------- SpecCancel
NextCancel ==
  \/ \E maxRetries \in 0..MaxRetriesBound : FwCall(maxRetries)
  \/ \E outcome \in FetchOutcomes \cup {AbortError} : FwSettle(outcome)
  \/ FwWake
  \/ FwAbort

SpecCancel == Init /\ [][NextCancel]_vars

\* C12: once the signal of a fetchWithRetry call is aborted the call is in no
\* backoff sleep and begins none: it fails with the cancellation error
C12_CancelEndsCall ==
  fw.aborted =>
    /\ fw.pc # "sleeping"
    /\ fw.sleptAfterAbort = 0
    /\ fw.pc = "thrown" => fw.result = AttemptError(AbortError)

\* -------------------------------------------------------------- SpecValidate
\* records handed to the validators: each required field absent, null, empty
\* or filled, with and without coordinates; and the values null and undefined
ValidateSources == {Undefined, EmptyStr, Str(<<"h","a","y","s","c","a","d">>)}
ValidatePrices == {Undefined, Null, Num(0), Num(5 * Scale), NaN, Str(<<"5">>)}
ValidateStatuses == {Undefined, Null, EmptyStr, Str(<<"a","c","t","i","v","e">>), Str(<<"A","c","t","i","v","e">>)}
ValidateAddresses ==
  { Undefined, Null, Obj([county |-> EmptyStr]), Obj([county |-> Str(<<"H","a","y","s">>)]),
    Obj([county |-> Str(<<"H","a","y","s">>),
         coordinates |-> Obj([latitude |-> Num(30 * Scale), longitude |-> Num(-98 * Scale)])]),
    Obj([county |-> Null,
         coordinates |-> Obj([latitude |-> Num(32 * Scale), longitude |-> Num(-98 * Scale)])]),
    Obj([county |-> Str(<<"H","a","y","s">>),
         coordinates |-> Obj([latitude |-> Str(<<"3","0">>), longitude |-> Num(-98 * Scale)])]) }

ValidateRecords ==
  { Obj([source |-> source, price |-> price, status |-> status, address |-> address]) :
      source \in ValidateSources, price \in ValidatePrices,
      status \in ValidateStatuses, address \in ValidateAddresses }
    \cup {Null, Undefined}

Validators ==
  {"validateLandParcelData", "validateCommercialPropertyData",
   "validateResidentialPropertyData"}

InitValidate ==
  /\ InitScrape /\ InitFetch /\ InitFactory /\ InitMcp
  /\ pure \in {PureCall(fn, <<record>>) : fn \in Validators, record \in ValidateRecords}

NextValidate ==
  \/ Returns("validateLandParcelData", validateLandParcelData(pure.args[1]))
  \/ Returns("validateCommercialPropertyData", validateCommercialPropertyData(pure.args[1]))
  \/ Returns("validateResidentialPropertyData", validateResidentialPropertyData(pure.args[1]))

SpecValidate == InitValidate /\ [][NextValidate]_vars

\* the value of a required field counts as missing
FieldAbsent(record, path) ==
  \E value \in {getNestedValue(record, path)} :
    value.t \in {"undef", "null"} \/ (value.t = "str" /\ Len(value.v) = 0)

PositiveNumber(x) == x.t = "num" /\ x.v > 0

InRegion(coordinates) ==
  \E lat \in {Get(coordinates, "latitude")}, lng \in {Get(coordinates, "longitude")} :
    /\ lat.t = "num" /\ lng.t = "num"
    /\ lat.v >= 29 * Scale /\ lat.v <= 31 * Scale
    /\ lng.v >= -99 * Scale /\ lng.v <= -97 * Scale

\* C15: for every record object each composite validator returns a result
\* (it does not throw) in which missingFields lists exactly the absent, null
\* or empty ones of source, price, status, address.county, each flag comes
\* from its own check, and isValid holds exactly when nothing is reported
C15_AllChecksReported ==
  (pure.fn \in Validators /\ pure.done /\ pure.args[1].t = "obj") =>
    \E record \in {pure.args[1]} :
      /\ "isValid" \in DOMAIN pure.out
      /\ pure.out.errors.missingFields =
           SelectSeq(<< <<"source">>, <<"price">>, <<"status">>, <<"address", "county">> >>,
                     LAMBDA path : FieldAbsent(record, path))
      /\ pure.out.errors.invalidPrice <=> ~PositiveNumber(Get(record, "price"))
      /\ pure.out.errors.invalidStatus <=>
           ~(\E status \in {Get(record, "status")} :
               status.t = "str"
                 /\ status.v \in {<<"a","c","t","i","v","e">>, <<"p","e","n","d","i","n","g">>, <<"s","o","l","d">>, <<"o","f","f","-","m","a","r","k","e","t">>})
      /\ pure.out.errors.invalidCoordinates <=>
           \E coordinates \in {getNestedValue(record, <<"address", "coordinates">>)} :
             coordinates.t = "obj" /\ ~InRegion(coordinates)
      /\ pure.out.isValid <=>
           /\ pure.out.errors.missingFields = <<>>
           /\ ~pure.out.errors.invalidPrice
           /\ ~pure.out.errors.invalidStatus
           /\ ~pure.out.errors.invalidCoordinates

\* a record without price, status and county: all three are listed and both
\* flags are set
C15_Witness ==
  /\ pure.fn = "validateLandParcelData"
  /\ pure.done
  /\ pure.args[1].t = "obj"
  /\ pure.out.errors.missingFields = << <<"price">>, <<"status">>, <<"address", "county">> >>
  /\ pure.out.errors.invalidPrice
  /\ pure.out.errors.invalidStatus
  /\ ~pure.out.errors.invalidCoordinates
  /\ ~pure.out.isValid

\* ----------------------------------------------------------------- SpecPrice
\* price strings have MaxPriceLen characters at most
MaxPriceLen == 4

PriceChars == {"$", ",", " ", ".", "-", "a", "0", "5"}

PriceInputs ==
  { Str(chars) : chars \in UNION { [1..n -> PriceChars] : n \in 0..MaxPriceLen } }
    \cup { Num(0), Num(1250 * Scale + 500), Num(-3 * Scale), NaN, Null, Undefined,
           Bool(TRUE), Obj([price |-> Num(Scale)]) }

InitPrice ==
  /\ InitScrape /\ InitFetch /\ InitFactory /\ InitMcp
  /\ pure \in {PureCall("normalizePrice", <<x>>) : x \in PriceInputs}

NextPrice == Returns("normalizePrice", normalizePrice(pure.args[1]))

SpecPrice == InitPrice /\ [][NextPrice]_vars

\* s without the characters "$", "," and whitespace
WithoutPriceNoise(s) == SelectSeq(s, LAMBDA ch : ch \notin {"$", ",", " ", "\t", "\n"})

\* s[i..j] is the first numeric token of s: digits, then optionally a point
\* and further digits, as long as possible, with no digit before it
IsFirstToken(s, i, j) ==
  /\ \A k \in 1..(i - 1) : s[k] \notin Digits
  /\ s[i] \in Digits
  /\ \E w \in i..j :
       /\ \A k \in i..w : s[k] \in Digits
       /\ w < Len(s) => s[w + 1] \notin Digits
       /\ IF w < Len(s) /\ s[w + 1] = "."
            THEN /\ j >= w + 1
                 /\ \A k \in (w + 2)..j : s[k] \in Digits
                 /\ j < Len(s) => s[j + 1] \notin Digits
            ELSE j = w

\* the decimal value of a token, in thousandths
RECURSIVE TokenValue(_, _)
TokenValue(token, unit) ==
  IF token = <<>> THEN 0
  ELSE IF Head(token) = "." THEN TokenValue(Tail(token), Scale \div 10)
  ELSE IF unit = Scale
    THEN TokenValue(Tail(token), Scale)
           + DigitVal(Head(token)) * Scale * 10 ^ (Len(DigitRun(token, 1)) - 1)
  ELSE DigitVal(Head(token)) * unit + TokenValue(Tail(token), unit \div 10)

\* C16: normalizePrice returns a number for every input: a number unchanged,
\* 0 for what is neither number nor string, and for a string the value of the
\* first numeric token left after "$", "," and whitespace are removed, or 0
\* when no digit is left
C16_FirstNumericToken ==
  (pure.fn = "normalizePrice" /\ pure.done) =>
    \E x \in {pure.args[1]} :
      /\ pure.out.t \in {"num", "nan"}
      /\ x.t \in {"num", "nan"} => pure.out = x
      /\ x.t \notin {"num", "nan", "str"} => pure.out = Num(0)
      /\ x.t = "str" =>
           \E s \in {WithoutPriceNoise(x.v)} :
             IF \A k \in 1..Len(s) : s[k] \notin Digits
               THEN pure.out = Num(0)
               ELSE \E i \in 1..Len(s), j \in 1..Len(s) :
                      /\ IsFirstToken(s, i, j)
                      /\ pure.out = Num(TokenValue(SubSeq(s, i, j), Scale))

C16_Witness ==
  /\ pure.fn = "normalizePrice"
  /\ pure.done
  /\ pure.args[1] = Str(<<"$","5",",","5">>)
  /\ pure.out = Num(55 * Scale)

\* ----------------------------------------------------------- SpecCoordinates
\* latitudes and longitudes at, just inside and just outside the bounds, as
\* numbers and as strings, and values that are no coordinate
LatitudeInputs ==
  { Num(29 * Scale - 1), Num(29 * Scale), Num(30 * Scale + 500), Num(31 * Scale),
    Num(31 * Scale + 1), Num(0), NaN, Null, Undefined, Bool(TRUE),
    Str(<<"3","0",".","5">>), Str(<<" ","2","9">>), Str(<<"3","1",".","5">>), Str(<<"-","3","0">>), Str(<<"a","b","c">>), EmptyStr }

LongitudeInputs ==
  { Num(-99 * Scale - 1), Num(-99 * Scale), Num(-98 * Scale), Num(-97 * Scale),
    Num(-97 * Scale + 1), Num(98 * Scale), NaN, Null, Undefined,
    Str(<<"-","9","8">>), Str(<<"-","9","7",".","5","x">>), Str(<<"9","8">>), Str(<<"-">>), Str(<<".","5">>) }

InitCoordinates ==
  /\ InitScrape /\ InitFetch /\ InitFactory /\ InitMcp
  /\ pure \in {PureCall("normalizeCoordinates", <<lat, lng>>) :
                 lat \in LatitudeInputs, lng \in LongitudeInputs}

NextCoordinates ==
  Returns("normalizeCoordinates", normalizeCoordinates(pure.args[1], pure.args[2]))

SpecCoordinates == InitCoordinates /\ [][NextCoordinates]_vars

\* the number a coordinate argument stands for: itself, or what its text parses to
CoordinateValue(x) == IF x.t = "str" THEN parseFloat(x.v) ELSE x

Within(x, low, high) == x.t = "num" /\ x.v >= low * Scale /\ x.v <= high * Scale

\* C17: normalizeCoordinates returns null unless the latitude is a number in
\* [29, 31] and the longitude a number in [-99, -97], bounds included; then it
\* returns the two values as they are, and normalizing the result again gives
\* the same result
C17_RegionBox ==
  (pure.fn = "normalizeCoordinates" /\ pure.done) =>
    \E lat \in {CoordinateValue(pure.args[1])}, lng \in {CoordinateValue(pure.args[2])} :
      IF Within(lat, 29, 31) /\ Within(lng, -99, -97)
        THEN /\ pure.out = Obj([latitude |-> lat, longitude |-> lng])
             /\ normalizeCoordinates(pure.out.v.latitude, pure.out.v.longitude) = pure.out
        ELSE pure.out = Null

\* a pair on the corner of the box is returned as it is
C17_Witness ==
  /\ pure.fn = "normalizeCoordinates"
  /\ pure.done
  /\ pure.args = <<Num(29 * Scale), Num(-97 * Scale)>>
  /\ pure.out = Obj([latitude |-> Num(29 * Scale), longitude |-> Num(-97 * Scale)])

\* ---------------------------------------------------------------- SpecStatus
\* status words: the enum, the synonyms, unknown words and property names of
\* Object.prototype; each as written, upper-cased and padded with a blank
StatusWords ==
  { <<"a","c","t","i","v","e">>, <<"p","e","n","d","i","n","g">>, <<"s","o","l","d">>, <<"o","f","f","-","m","a","r","k","e","t">>, <<"a","v","a","i","l","a","b","l","e">>, <<"l","i","s","t","e","d">>,
    <<"u","n","d","e","r","_","c","o","n","t","r","a","c","t">>, <<"c","l","o","s","e","d">>, <<"w","i","t","h","d","r","a","w","n">>, <<"e","x","p","i","r","e","d">>, <<"u","n","k","n","o","w","n">>, <<>>,
    <<"c","o","n","s","t","r","u","c","t","o","r">>, <<"_","_","p","r","o","t","o","_","_">>, <<"t","o","S","t","r","i","n","g">> }

StatusInputs ==
  UNION { { Str(word), Str(toUpperCase(word)), Str(<<" ">> \o word), Str(word \o <<" ">>) } :
          word \in StatusWords }
    \cup { Null, Undefined, Num(Scale), NaN, Bool(TRUE) }

InitStatus ==
  /\ InitScrape /\ InitFetch /\ InitFactory /\ InitMcp
  /\ pure \in {PureCall("normalizeStatus", <<x>>) : x \in StatusInputs}

NextStatus == Returns("normalizeStatus", normalizeStatus(pure.args[1]))

SpecStatus == InitStatus /\ [][NextStatus]_vars

\* what a lower-cased, trimmed status word stands for
StatusMeaning(word) ==
  CASE word \in {<<"a","c","t","i","v","e">>, <<"p","e","n","d","i","n","g">>, <<"s","o","l","d">>, <<"o","f","f","-","m","a","r","k","e","t">>} -> word
    [] word \in {<<"a","v","a","i","l","a","b","l","e">>, <<"l","i","s","t","e","d">>} -> <<"a","c","t","i","v","e">>
    [] word = <<"u","n","d","e","r","_","c","o","n","t","r","a","c","t">> -> <<"p","e","n","d","i","n","g">>
    [] word = <<"c","l","o","s","e","d">> -> <<"s","o","l","d">>
    [] word \in {<<"w","i","t","h","d","r","a","w","n">>, <<"e","x","p","i","r","e","d">>} -> <<"o","f","f","-","m","a","r","k","e","t">>
    [] OTHER -> <<"a","c","t","i","v","e">>

\* C18: normalizeStatus returns one of active, pending, sold, off-market for
\* every input: what the lower-cased, trimmed word stands for, active for an
\* unknown word or a non-string; normalizing the result again changes nothing
C18_StatusInEnum ==
  (pure.fn = "normalizeStatus" /\ pure.done) =>
    /\ pure.out.t = "str"
    /\ pure.out.v \in {<<"a","c","t","i","v","e">>, <<"p","e","n","d","i","n","g">>, <<"s","o","l","d">>, <<"o","f","f","-","m","a","r","k","e","t">>}
    /\ pure.out.v = (IF pure.args[1].t = "str"
                       THEN StatusMeaning(trim(toLowerCase(pure.args[1].v)))
                       ELSE <<"a","c","t","i","v","e">>)
    /\ normalizeStatus(pure.out) = pure.out

\* --------------------------------------------------------------- SpecDerived
\* records handed to calculateDerivedFields: each of price, acreage,
\* squareFeet, totalSquareFeet absent, zero or positive
DerivedInputs ==
  { Obj([price |-> price, acreage |-> acreage, squareFeet |-> squareFeet,
         totalSquareFeet |-> totalSquareFeet]) :
      price \in {Undefined, Num(0), Num(100 * Scale), Num(300 * Scale)},
      acreage \in {Undefined, Null, Num(0), Num(2 * Scale), Num(-1 * Scale)},
      squareFeet \in {Undefined, Null, Num(0), Num(50 * Scale)},
      totalSquareFeet \in {Undefined, Num(0), Num(50 * Scale), Num(200 * Scale)} }

InitDerived ==
  /\ InitScrape /\ InitFetch /\ InitFactory /\ InitMcp
  /\ pure \in {PureCall("calculateDerivedFields", <<x>>) : x \in DerivedInputs}

NextDerived == Returns("calculateDerivedFields", calculateDerivedFields(pure.args[1]))

SpecDerived == InitDerived /\ [][NextDerived]_vars

\* a field holds a number above zero
AboveZero(record, field) ==
  \E x \in {Get(record, field)} : x.t = "num" /\ x.v > 0

\* the quotient of two numeric fields of a record, as numerator and denominator
Quotient(record, over, under) ==
  [t |-> "ratio", n |-> Get(record, over).v, d |-> Get(record, under).v]

\* C19: pricePerAcre is price / acreage and present exactly when price and
\* acreage are above zero; pricePerSquareFoot is price / squareFeet when
\* squareFeet is above zero, price / totalSquareFeet when only totalSquareFeet
\* is, and absent otherwise
C19_DerivedFields ==
  (pure.fn = "calculateDerivedFields" /\ pure.done) =>
    \E record \in {pure.args[1]}, derived \in {pure.out.v} :
      /\ "pricePerAcre" \in DOMAIN derived
           <=> AboveZero(record, "price") /\ AboveZero(record, "acreage")
      /\ "pricePerAcre" \in DOMAIN derived
           => derived.pricePerAcre = Quotient(record, "price", "acreage")
      /\ "pricePerSquareFoot" \in DOMAIN derived
           <=> /\ AboveZero(record, "price")
               /\ AboveZero(record, "squareFeet") \/ AboveZero(record, "totalSquareFeet")
      /\ "pricePerSquareFoot" \in DOMAIN derived
           => derived.pricePerSquareFoot =
                (IF AboveZero(record, "squareFeet")
                   THEN Quotient(record, "price", "squareFeet")
                   ELSE Quotient(record, "price", "totalSquareFeet"))

\* ----------------------------------------------------------------- SpecScore
\* records handed to calculateCompletenessScore, and the property types
ScoreRecords ==
  { Obj([source |-> source, price |-> price, status |-> status, address |-> address,
         acreage |-> acreage, bedrooms |-> bedrooms, zoning |-> zoning,
         seoSlug |-> seoSlug]) :
      source \in {Undefined, Str(<<"h","a","y","s","c","a","d">>)},
      price \in {Undefined, Null, Num(0)},
      status \in {Undefined, EmptyStr, Str(<<"a","c","t","i","v","e">>)},
      address \in {Undefined, Null, Obj([county |-> EmptyStr]),
                   Obj([county |-> Str(<<"H","a","y","s">>), street |-> Str(<<"1"," ","M","a","i","n">>)])},
      acreage \in {Undefined, Num(2 * Scale)},
      bedrooms \in {Undefined, Num(3 * Scale)},
      zoning \in {Undefined, Str(<<"R","1">>)},
      seoSlug \in {Undefined, Str(<<"s">>)} }

PropertyTypes == {"land", "commercial", "residential", "residential-luxury", "farm"}

InitScore ==
  /\ InitScrape /\ InitFetch /\ InitFactory /\ InitMcp
  /\ pure \in {PureCall("calculateCompletenessScore", <<data, propertyType>>) :
                 data \in ScoreRecords, propertyType \in PropertyTypes}

NextScore ==
  Returns("calculateCompletenessScore",
          calculateCompletenessScore(pure.args[1], pure.args[2]))

SpecScore == InitScore /\ [][NextScore]_vars

\* the record with the field at a path of one or two names set to value,
\* everything else as it was
Filled(data, path, value) ==
  IF Len(path) = 1 THEN Obj((path[1] :> value) @@ data.v)
  ELSE Only({ Obj((path[1] :> Obj(IF parent.t = "obj" THEN (path[2] :> value) @@ parent.v
                                  ELSE (path[2] :> value)))
                    @@ data.v) :
              parent \in {Get(data, path[1])} })

FillValues == {Num(0), Str(<<"x">>), Bool(FALSE)}

\* the required fields of the type that the record leaves absent, null or empty
Unfilled(data, propertyType) ==
  { path \in { getRequiredFieldsForType(propertyType)[i] :
                 i \in 1..Len(getRequiredFieldsForType(propertyType)) } :
      \E value \in {getNestedValue(data, path)} :
        value.t \in {"undef", "null"} \/ (value.t = "str" /\ Len(value.v) = 0) }

ScoreLower(a, b) == a.t = "num" /\ b.t = "num" /\ a.v < b.v

\* C20: for every property type and record, the score of the record with one
\* more required field filled in is not lower than the score of the record
C20_ScoreMonotone ==
  (pure.fn = "calculateCompletenessScore" /\ pure.done) =>
    \A path \in Unfilled(pure.args[1], pure.args[2]), value \in FillValues :
      ~ScoreLower(calculateCompletenessScore(Filled(pure.args[1], path, value), pure.args[2]),
                  pure.out)

\* a land record without acreage whose score rises when acreage is filled in
C20_Witness ==
  /\ pure.fn = "calculateCompletenessScore"
  /\ pure.done
  /\ pure.args[2] = "land"
  /\ <<"acreage">> \in Unfilled(pure.args[1], "land")
  /\ ScoreLower(pure.out,
                calculateCompletenessScore(Filled(pure.args[1], <<"acreage">>, Num(Scale)), "land"))

\* ------------------------------------------------------- score composition
\* the property types of the canonical record
CanonicalTypes == {"land", "commercial", "residential", "residential-luxury"}

\* how many of the listed fields the record has
FieldsPresent(record, fields) ==
  Cardinality({ i \in 1..Len(fields) : ~FieldAbsent(record, fields[i]) })

\* twice the weighted sum of the five shares, times the common denominator
\* 3 * required * details of the shares
TwiceWeightedSum(record, required, details) ==
  2 * ( 40 * FieldsPresent(record, required) * 3 * Len(details)
      + 4 * FieldsPresent(record, locationFields) * 3 * Len(required) * Len(details)
      + 20 * FieldsPresent(record, details) * 3 * Len(required)
      + 10 * (FieldsPresent(record, marketFields) + FieldsPresent(record, seoFields))
           * Len(required) * Len(details) )

\* C21: for every record and every property type of the canonical enum the
\* score is an integer between 0 and 100, and it is the weighted sum of the
\* five shares (40 required, 20 location, 20 details, 10 market, 10 SEO)
\* rounded to the nearest integer
C21_ScoreIsRoundedSum ==
  (pure.fn = "calculateCompletenessScore" /\ pure.done /\ pure.args[2] \in CanonicalTypes) =>
    /\ pure.out.t = "num"
    /\ pure.out.v % Scale = 0
    /\ pure.out.v >= 0 /\ pure.out.v <= 100 * Scale
    /\ \E required \in {getRequiredFieldsForType(pure.args[2])},
          details \in {getDetailFieldsForType(pure.args[2])} :
         \E den \in {3 * Len(required) * Len(details)},
            twice \in {TwiceWeightedSum(pure.args[1], required, details)} :
           /\ den > 0
           /\ 2 * den * (pure.out.v \div Scale) <= twice + den
           /\ twice + den < 2 * den * ((pure.out.v \div Scale) + 1)

\* --------------------------------------------------------------- SpecAddress
\* coordinates an address object may carry: none, inside the region, on its
\* edge, outside it, and values that are no coordinate pair
AddressCoordinates ==
  { Undefined, Null, Num(0), Str(<<"3","0",".","2",",","-","9","7",".","7">>),
    Obj([latitude |-> Num(30 * Scale + 250), longitude |-> Num(-97 * Scale - 750)]),
    Obj([latitude |-> Num(31 * Scale), longitude |-> Num(-99 * Scale)]),
    Obj([latitude |-> Num(40 * Scale), longitude |-> Num(-120 * Scale)]),
    Obj([latitude |-> Num(30 * Scale), longitude |-> Num(97 * Scale)]),
    Obj([latitude |-> Str(<<"3","0",".","2","5">>), longitude |-> Str(<<"-","9","7",".","7","5">>)]),
    Obj([latitude |-> Num(30 * Scale)]) }

\* addresses handed to normalizeAddress: objects, strings and other values
AddressInputs ==
  { Obj([street |-> street, county |-> county, state |-> state,
         coordinates |-> coordinates]) :
      street \in {Undefined, Str(<<"1"," ","M","a","i","n"," ","S","t">>)},
      county \in {EmptyStr, Str(<<"H","a","y","s">>)},
      state \in {Undefined, Str(<<"O","K">>)},
      coordinates \in AddressCoordinates }
  \cup { Str(<<"1"," ","M","a","i","n"," ","S","t",","," ","A","u","s","t","i","n",","," ","T","r","a","v","i","s",","," ","T","X"," ","7","8","7","0","1">>), Str(<<"1"," ","M","a","i","n"," ","S","t",",","A","u","s","t","i","n">>),
         Str(<<" ",","," ",",","H","a","y","s",","," ","7","8","7","0","1">>), Str(<<"3","0",".","2",","," ","-","1","2","0",".","5">>), EmptyStr,
         Null, Undefined, Num(7 * Scale), Arr(<<>>) }

InitAddress ==
  /\ InitScrape /\ InitFetch /\ InitFactory /\ InitMcp
  /\ pure \in {PureCall("normalizeAddress", <<rawAddress>>) : rawAddress \in AddressInputs}

NextAddress == Returns("normalizeAddress", normalizeAddress(pure.args[1]))

SpecAddress == InitAddress /\ [][NextAddress]_vars

\* C22: whatever normalizeAddress is given (an object, a string or anything
\* else), the coordinates of the address it returns are null or lie inside
\* the region box, latitude 29 to 31 and longitude -99 to -97
C22_CoordinatesNullOrInRegion ==
  (pure.fn = "normalizeAddress" /\ pure.done) =>
    \/ pure.out.v.coordinates = Null
    \/ InRegion(pure.out.v.coordinates)

\* ------------------------------------------------------------- SpecNormalize
\* the text or number a detail page gives for a market or appraised value
RawValues == { EmptyStr, Undefined, Num(0), Str(<<"N","/","A">>), Str(<<"$","2","5","0",",","0","0","0">>),
               Num(125000 * Scale) }

RawAcreages == { EmptyStr, Str(<<"5">>), Str(<<"5",".","5"," ","a","c","r","e","s">>), Num(12 * Scale) }

\* one row of the improvements table
Improvement(type, squareFeet) == Obj([type |-> type, squareFeet |-> squareFeet])

RawImprovements ==
  { Undefined, Arr(<<>>),
    Arr(<<Improvement(Str(<<"R","e","s","i","d","e","n","t","i","a","l">>), Num(1800 * Scale))>>),
    Arr(<<Improvement(Str(<<"C","o","m","m","e","r","c","i","a","l"," ","W","a","r","e","h","o","u","s","e">>), Num(9000 * Scale))>>),
    Arr(<<Improvement(Str(<<"S","i","n","g","l","e"," ","F","a","m","i","l","y"," ","R","e","s","i","d","e","n","t","i","a","l">>), Num(2400 * Scale)),
          Improvement(Str(<<"C","O","M","M","E","R","C","I","A","L">>), Num(600 * Scale))>>),
    Arr(<<Improvement(Str(<<"B","a","r","n">>), Num(900 * Scale)),
          Improvement(Undefined, Undefined)>>),
    Arr(<<Improvement(Str(<<"r","e","s","i","d","e","n","t","i","a","l">>), Num(1500 * Scale)),
          Improvement(Str(<<"G","a","r","a","g","e">>), Num(400 * Scale)),
          Improvement(Str(<<"P","o","o","l">>), Num(0))>>) }

\* raw records as getPropertyDetails hands them to normalize
RawRecords ==
  { Obj([parcelId |-> Str(<<"R","1">>), marketValue |-> marketValue,
         appraisedValue |-> appraisedValue, acreage |-> acreage,
         improvements |-> improvements]) :
      marketValue \in RawValues, appraisedValue \in RawValues,
      acreage \in RawAcreages, improvements \in RawImprovements }

InitNormalize ==
  /\ InitScrape /\ InitFetch /\ InitFactory /\ InitMcp
  /\ pure \in {PureCall("normalize", <<adapter, rawData>>) :
                 adapter \in Adapters, rawData \in RawRecords}

NextNormalize == Returns("normalize", normalize(pure.args[1], pure.args[2]))

SpecNormalize == InitNormalize /\ [][NextNormalize]_vars

\* the record has a value for the field
HasField(record, field) == Get(record, field).t \notin {"undef", "null"}

\* C23: in every record an adapter's normalize produces, the price, when the
\* record has one, is a number strictly greater than 0, whatever the raw
\* market and appraised values were
C23_PricePositive ==
  (pure.fn = "normalize" /\ pure.done /\ HasField(pure.out, "price")) =>
    PositiveNumber(Get(pure.out, "price"))

\* --------------------------------------------------------------- SpecAcreage
\* acreage strings: the short strings of SpecPrice and two texts of the kind
\* a detail page shows
AcreageInputs == PriceInputs \cup { Str(<<"1","0",".","5"," ","a","c","r","e","s">>), Str(<<"1",",","2","5","0"," ","a","c","r","e","s">>) }

InitAcreage ==
  /\ InitScrape /\ InitFetch /\ InitFactory /\ InitMcp
  /\ pure \in {PureCall("normalizeAcreage", <<x>>) : x \in AcreageInputs}

NextAcreage == Returns("normalizeAcreage", normalizeAcreage(pure.args[1]))

SpecAcreage == InitAcreage /\ [][NextAcreage]_vars

\* C24: for every string, normalizeAcreage returns what normalizePrice
\* returns for it, thousands separators and embedded whitespace included,
\* and 0 when the string holds no number
C24_AcreageAsPrice ==
  (pure.fn = "normalizeAcreage" /\ pure.done /\ IsString(pure.args[1])) =>
    /\ pure.out = normalizePrice(pure.args[1])
    /\ (\A i \in 1..Len(pure.args[1].v) : pure.args[1].v[i] \notin Digits) => pure.out = Num(0)

\* ------------------------------------------------------------- SpecAdmission
\* a domain's store entry holds MaxStamps timestamps at most
MaxStamps == 2

\* the time of the admission check
CheckTime == 10 * 1000

\* configured and unconfigured domains
AdmissionDomains == {"mls.com", "hayscad.org", "esearch.hayscad.com", "unknown"}

\* timestamps around the start of a 1000 ms and of a 2000 ms window
Stamps == { CheckTime - 2001, CheckTime - 2000, CheckTime - 1999, CheckTime - 1001,
            CheckTime - 1000, CheckTime - 999, CheckTime }

\* request logs as recordRequest builds them: timestamps in the order recorded
StampLogs ==
  { log \in UNION { [1..n -> Stamps] : n \in 0..MaxStamps } :
      \A i \in 1..(Len(log) - 1) : log[i] <= log[i + 1] }

StoreEntries == {NoEntry} \cup { [has |-> TRUE, requests |-> log] : log \in StampLogs }

InitAdmission ==
  /\ InitScrape /\ InitFetch /\ InitFactory /\ InitMcp
  /\ pure \in {PureCall("canMakeRequest", <<domain, entry, CheckTime>>) :
                 domain \in AdmissionDomains, entry \in StoreEntries}

\* canMakeRequest(domain) at time now on a store holding the entry: what it
\* returns and the entry it leaves
NextAdmission ==
  \E store \in {[d \in {pure.args[1]} |-> pure.args[2]]} :
    Returns("canMakeRequest",
            [admitted |-> canMakeRequest(store, pure.args[1], pure.args[3]),
             entry |-> canMakeRequestStore(store, pure.args[1], pure.args[3])[pure.args[1]]])

SpecAdmission == InitAdmission /\ [][NextAdmission]_vars

\* the timestamps of a log that are not older than the limit
NotOlderThan(log, limit) == SelectSeq(log, LAMBDA timestamp : timestamp >= limit)

\* the window of the domain, and ceil(requestsPerSecond * windowMs / 1000)
\* with the rate in tenths: 1 req/s over 1000 ms for mls.com, 0.5 req/s over
\* 2000 ms for the county domains and for a domain without configuration
WindowOf(domain) == IF domain = "mls.com" THEN 1000 ELSE 2000

AdmissionLimit(domain) ==
  IF domain = "mls.com" THEN Ceil(10 * WindowOf(domain), 10 * 1000)
  ELSE Ceil(5 * WindowOf(domain), 10 * 1000)

\* C25: canMakeRequest(domain) drops exactly the timestamps older than
\* now - windowMs, so that one not older than now - windowMs still counts, and
\* admits exactly when fewer than ceil(requestsPerSecond * windowMs / 1000)
\* timestamps remain; a domain never seen before is admitted; a domain
\* without configuration has 0.5 req/s over 2000 ms, a limit of 1
C25_AdmissionCheck ==
  (pure.fn = "canMakeRequest" /\ pure.done) =>
    IF ~pure.args[2].has
      THEN pure.out.admitted
      ELSE \E kept \in {NotOlderThan(pure.args[2].requests,
                                      pure.args[3] - WindowOf(pure.args[1]))} :
             /\ pure.out.entry.requests = kept
             /\ pure.out.admitted <=> Len(kept) < AdmissionLimit(pure.args[1])

\* ------------------------------------------------- Hays type and floor area
\* the rows of the improvements table of a raw record
ImprovementRows(rawData) ==
  IF Get(rawData, "improvements").t = "arr" THEN Get(rawData, "improvements").v ELSE <<>>

\* some row's type contains the word, in any letter case
HasRowOfType(rows, word) ==
  \E i \in 1..Len(rows) :
    /\ Get(rows[i], "type").t = "str"
    /\ includes(toLowerCase(Get(rows[i], "type").v), word)

\* the square feet of the first n rows together, a row without a figure
\* counting as 0
RECURSIVE AreaOfRows(_, _)
AreaOfRows(rows, n) ==
  IF n = 0 THEN 0
  ELSE AreaOfRows(rows, n - 1)
         + (IF Get(rows[n], "squareFeet").t = "num" THEN Get(rows[n], "squareFeet").v ELSE 0)

\* C30: the record HaysCADScraper.normalize produces is commercial whenever an
\* improvement type contains "commercial", also next to residential ones;
\* otherwise residential-luxury with a residential improvement and more than
\* 5 acres, residential with a residential improvement and 5 acres or less,
\* and land in every other case, the one without improvements included; its
\* totalSquareFeet is the sum of the improvements' squareFeet
C30_HaysTypeAndArea ==
  (pure.fn = "normalize" /\ pure.done /\ pure.args[1] = "hays") =>
    \E rows \in {ImprovementRows(pure.args[2])} :
      /\ Get(pure.out, "propertyType") =
           (IF HasRowOfType(rows, <<"c","o","m","m","e","r","c","i","a","l">>) THEN Str(<<"c","o","m","m","e","r","c","i","a","l">>)
            ELSE IF HasRowOfType(rows, <<"r","e","s","i","d","e","n","t","i","a","l">>)
                    /\ Get(pure.out, "acreage").v > 5 * Scale
              THEN Str(<<"r","e","s","i","d","e","n","t","i","a","l","-","l","u","x","u","r","y">>)
            ELSE IF HasRowOfType(rows, <<"r","e","s","i","d","e","n","t","i","a","l">>) THEN Str(<<"r","e","s","i","d","e","n","t","i","a","l">>)
            ELSE Str(<<"l","a","n","d">>))
      /\ Get(pure.out, "totalSquareFeet") = Num(AreaOfRows(rows, Len(rows)))

\* a parcel with a residential and a commercial improvement is commercial,
\* with the floor area of both
C30_Witness ==
  /\ pure.fn = "normalize"
  /\ pure.done
  /\ pure.args[1] = "hays"
  /\ Len(ImprovementRows(pure.args[2])) = 2
  /\ HasRowOfType(ImprovementRows(pure.args[2]), <<"r","e","s","i","d","e","n","t","i","a","l">>)
  /\ Get(pure.out, "propertyType") = Str(<<"c","o","m","m","e","r","c","i","a","l">>)
  /\ Get(pure.out, "totalSquareFeet") = Num(3000 * Scale)

\* ------------------------------------------------------------- SpecOwnership
\* the most deeds a history holds
MaxDeeds == 3

\* ECMAScript DayFromYear: the day number of 1 January of year y
DayFromYear(y) ==
  365 * (y - 1970) + ((y - 1969) \div 4) - ((y - 1901) \div 100) + ((y - 1601) \div 400)

\* new Date(text) as a number, in days: a year-only date string ("2023") is
\* the start of that year, the other texts of DeedDates are Invalid Date
DateValue(text) ==
  IF IsString(text) /\ Len(text.v) = 4 /\ (\A i \in 1..4 : text.v[i] \in Digits)
    THEN Num(DayFromYear(DigitsValue(text.v)) * Scale)
    ELSE NaN

\* the comparator handed to sort: dateB - dateA, NaN when either is invalid
byDateDescending(a, b) ==
  LET dateA == DateValue(Get(a, "date"))
      dateB == DateValue(Get(b, "date"))
  IN IF dateA.t = "num" /\ dateB.t = "num" THEN Num(dateB.v - dateA.v) ELSE NaN

\* the number sort makes of a comparator result: NaN counts as +0
SortOrder(a, b) ==
  LET v == byDateDescending(a, b) IN IF v.t = "nan" THEN 0 ELSE v.v

\* ECMAScript's consistent comparator: equality under the comparator is an
\* equivalence and the classes are totally ordered
ConsistentComparator(items) ==
  \A i, j, k \in 1..Len(items) :
    LET ij == SortOrder(items[i], items[j])
        jk == SortOrder(items[j], items[k])
        ik == SortOrder(items[i], items[k])
    IN /\ (ij < 0) = (SortOrder(items[j], items[i]) > 0)
       /\ (ij = 0 /\ jk = 0) => ik = 0
       /\ (ij < 0 /\ jk < 0) => ik < 0
       /\ (ij = 0 /\ jk < 0) => ik < 0
       /\ (ij < 0 /\ jk = 0) => ik < 0

\* [...items].sort(comparator): the stable sorted order when the comparator
\* is consistent for the items, and an order the engine chooses when not
SortOutcomes(items) ==
  LET n == Len(items)
      stable(p) == \A x, y \in 1..n :
                     x < y => LET o == SortOrder(items[p[x]], items[p[y]])
                              IN o < 0 \/ (o = 0 /\ p[x] < p[y])
  IN { [x \in 1..n |-> items[p[x]]] :
         p \in IF ConsistentComparator(items)
                 THEN { q \in Permutations(1..n) : stable(q) }
                 ELSE Permutations(1..n) }

\* the chain entry pushed for one deed
ChainEntry(deed) ==
  Obj([owner |-> Get(deed, "grantee"), acquiredDate |-> Get(deed, "date"),
       instrumentType |-> Get(deed, "instrumentType"),
       bookPage |-> Get(deed, "bookPage")])

\* the loop over sorted: one entry for each deed with a truthy grantee
RECURSIVE chainOf(_)
chainOf(sorted) ==
  IF sorted = <<>> THEN <<>>
  ELSE (IF Truthy(Get(sorted[1], "grantee")) THEN <<ChainEntry(sorted[1])>> ELSE <<>>)
       \o chainOf(Tail(sorted))

\* parseOwnershipChain(deedHistory), sorted being the order sort produced;
\* history is the caller's array after the call (sort works on a copy)
parseOwnershipChain(deedHistory, sorted) ==
  IF ~Truthy(deedHistory) \/ deedHistory.v = <<>>
    THEN [chain |-> <<>>, history |-> deedHistory]
    ELSE [chain |-> chainOf(sorted), history |-> deedHistory]

\* the date cell of a deed row: a year, no text, or text that is no date
DeedDates == { Str(<<"2","0","2","0">>), Str(<<"2","0","2","3">>), EmptyStr }

\* the grantee cell of a deed row
Grantees == { EmptyStr, Str(<<"A","n","n">>), Str(<<"B","o">>) }

Deeds ==
  { Obj([date |-> date, grantor |-> Str(<<"C","y">>), grantee |-> grantee,
         instrumentType |-> Str(<<"W","D">>), bookPage |-> EmptyStr]) :
      date \in DeedDates, grantee \in Grantees }

DeedHistories ==
  { Null, Undefined }
  \cup { Arr(items) : items \in UNION { [1..n -> Deeds] : n \in 0..MaxDeeds } }

InitOwnership ==
  /\ InitScrape /\ InitFetch /\ InitFactory /\ InitMcp
  /\ pure \in { PureCall("parseOwnershipChain", <<deedHistory>>) :
                  deedHistory \in DeedHistories }

NextOwnership ==
  \E sorted \in (IF pure.args # <<>> /\ pure.args[1].t = "arr"
                   THEN SortOutcomes(pure.args[1].v) ELSE {<<>>}) :
    Returns("parseOwnershipChain", parseOwnershipChain(pure.args[1], sorted))

SpecOwnership == InitOwnership /\ [][NextOwnership]_vars

\* how often x occurs in the sequence s
Occurrences(s, x) == Cardinality({ i \in 1..Len(s) : s[i] = x })

\* the deeds of a history that name a grantee
Granted(deedHistory) ==
  IF deedHistory.t = "arr"
    THEN SelectSeq(deedHistory.v, LAMBDA deed : Get(deed, "grantee") # EmptyStr)
    ELSE <<>>

\* C31: parseOwnershipChain returns one entry per deed with a non-empty
\* grantee and none for the others, ordered by deed date descending so that
\* no entry has a later date than the head; an empty or missing history
\* gives an empty chain, and the input array is left as it was
C31_OwnershipChain ==
  (pure.fn = "parseOwnershipChain" /\ pure.done) =>
    LET chain == pure.out.chain
        granted == Granted(pure.args[1])
        date(i) == DateValue(Get(chain[i], "acquiredDate"))
    IN /\ Len(chain) = Len(granted)
       /\ \A i \in 1..Len(granted) :
            Occurrences(chain, ChainEntry(granted[i]))
              = Occurrences(granted, granted[i])
       /\ \A i, j \in 1..Len(chain) :
            (i < j /\ date(i).t = "num" /\ date(j).t = "num") => date(i).v >= date(j).v
       /\ \A j \in 1..Len(chain) :
            date(j).t = "num" => (date(1).t = "num" /\ date(1).v >= date(j).v)
       /\ pure.out.history = pure.args[1]

\* --------------------------------------------------------------- SpecSpacing
\* one client that makes its calls one after the other, each begun once the
\* calls before it have ended, and whose every fetch is answered
MaxSpacingTicks == 4

SpacingStatuses == {200, 403, 404}

SpacingCalls ==
  { <<"hays", "batchScrapeBySequentialIds">>,
    <<"wcad", "searchByAddress">>, <<"wcad", "getPropertyDetails">> }

\* CallerSend, with the time of the fetch kept in sentAt
CallerSendAt(c) ==
  /\ callers[c].pc = "admitted"
  /\ LET m == sendStep(Machine(c))
     IN Commit(c, IF m.rec.pc = "fetching" THEN [m EXCEPT !.rec.sentAt = now] ELSE m)
  /\ UNCHANGED now

NextSpacing ==
  \/ Tick(TickMs, MaxSpacingTicks)
  \/ \E c \in Callers :
       \/ /\ \A other \in Callers : other < c => callers[other].pc = "done"
          /\ \E call \in SpacingCalls :
               StartCall(c, call[1], call[2], Str(<<"1","0","0","1">>),
                         IF call[2] = "batchScrapeBySequentialIds"
                           THEN IdRange(1001, 1002) ELSE <<>>)
       \/ CallerWake(c)
       \/ CallerSendAt(c)
       \/ \E status \in SpacingStatuses, cookie \in SetCookies :
            FetchResponds(c, status, cookie)

SpecSpacing == Init /\ [][NextSpacing]_vars

\* the step in which caller c issues a fetch
IssuesFetch(c) == callers'[c].sent = callers[c].sent + 1

\* C32: with one client making its requests one after the other, a limit of
\* one request per window and every fetch answered, a request to a domain is
\* sent no sooner than windowMs after the request sent to it before, be it a
\* handshake, a probe, a search or a detail fetch
C32_RequestsSpaced ==
  [][\A c \in Callers :
       IssuesFetch(c) =>
         \A earlier \in Callers :
           (/\ callers[earlier].sentAt >= 0
            /\ callers[earlier].adapter = callers[c].adapter
            /\ maxRequests(getRateLimitConfig(AdapterDomain[callers[c].adapter])) = 1)
           => now - callers[earlier].sentAt
                >= getRateLimitConfig(AdapterDomain[callers[c].adapter]).windowMs]_vars

\* a Williamson call has sent a handshake and a detail request; the next
\* call's handshake went out exactly one window after that detail request
C32_Witness ==
  \E first, second \in Callers :
    /\ first < second
    /\ callers[first].adapter = "wcad"
    /\ callers[second].adapter = "wcad"
    /\ callers[first].pc = "done"
    /\ callers[first].sent >= 2
    /\ callers[second].pc = "fetching"
    /\ callers[second].sent = 1
    /\ callers[second].sentAt
         = callers[first].sentAt + getRateLimitConfig(AdapterDomain["wcad"]).windowMs

\* -------------------------------------------------------------- SpecRejected
\* NumCallers concurrent callers, one call each; a fetch is answered with
\* some status or rejects
RejectedStatuses == {200, 500}

RejectedCalls ==
  { <<"hays", "getPropertyDetails">>, <<"travis", "getPropertyDetails">> }

NextRejected ==
  \/ Tick(TickMs, MaxTicks)
  \/ \E c \in Callers :
       \/ \E call \in RejectedCalls :
            StartCall(c, call[1], call[2], Str(<<"1","0","0","1">>), <<>>)
       \/ CallerWake(c)
       \/ CallerSend(c)
       \/ FetchThrows(c)
       \/ \E status \in RejectedStatuses, cookie \in {NoSetCookie, Only(SetCookies \ {NoSetCookie})} :
            FetchResponds(c, status, cookie)

SpecRejected == Init /\ [][NextRejected]_vars

\* the step in which the fetch of caller c rejects and its call ends with
\* the network error
FetchRejected(c) ==
  /\ callers[c].pc = "fetching"
  /\ callers'[c].pc = "done"
  /\ callers'[c].result = NetworkError

\* the step in which the fetch of caller c resolves with a response
FetchAnswered(c) ==
  /\ callers[c].pc = "fetching"
  /\ callers'[c] # callers[c]
  /\ ~FetchRejected(c)

\* at the end of the step, a request to the domain would be admitted at once
AdmittedNext(domain) == canMakeRequest(rateLimitStore', domain, now')

\* at the end of the step, no answer for the domain was recorded within the
\* last windowMs
NoneRecordedInWindow(domain) ==
  \A i \in 1..Len(recordedLog'[domain]) :
    recordedLog'[domain][i] <= now' - getRateLimitConfig(domain).windowMs

\* a request whose fetch rejects leaves the rate state of every domain as it
\* was, with no timestamp recorded
RejectedFrame(c) ==
  FetchRejected(c) => (rateLimitStore' = rateLimitStore /\ recordedLog' = recordedLog)

\* a request whose fetch is answered records one timestamp, the time of the
\* answer, for its domain and none for another, whatever the status
AnsweredRecorded(c) ==
  FetchAnswered(c) =>
    LET domain == AdapterDomain[callers[c].adapter]
    IN /\ recordedLog' = [recordedLog EXCEPT ![domain] = Append(@, now)]
       /\ Includes(rateLimitStore'[domain].requests, now)
       /\ \A other \in Domains \ {domain} : rateLimitStore'[other] = rateLimitStore[other]

IsolationDomains == {"", "mls.com", "esearch.hayscad.com"}

\* the argument of a call: a domain, or none (clearRateLimit())
Given(domain) == [given |-> TRUE, domain |-> domain]
NotGiven == [given |-> FALSE, domain |-> ""]

Max(a, b) == IF a >= b THEN a ELSE b

\* the store as getRemainingRequests(domain) leaves it at time t
getRemainingRequestsStore(store, domain, t) ==
  IF ~store[domain].has
    THEN store
    ELSE [store EXCEPT ![domain].requests =
            InWindow(@, t - getRateLimitConfig(domain).windowMs)]

\* the value getRemainingRequests(domain) returns at time t
getRemainingRequests(store, domain, t) ==
  IF ~store[domain].has
    THEN maxRequests(getRateLimitConfig(domain))
    ELSE Max(0, maxRequests(getRateLimitConfig(domain))
                  - Len(getRemainingRequestsStore(store, domain, t)[domain].requests))

\* the store as clearRateLimit(domain) leaves it: `if (domain)` deletes the
\* entry of a truthy argument and clears the whole map otherwise
clearRateLimit(store, arg) ==
  IF arg.given /\ arg.domain # ""
    THEN [store EXCEPT ![arg.domain] = NoEntry]
    ELSE [d \in DOMAIN store |-> NoEntry]

RateLimiterFunctions ==
  {"canMakeRequest", "recordRequest", "getRemainingRequests", "clearRateLimit"}

InitIsolation ==
  /\ now = 0
  /\ rateLimitStore = [d \in IsolationDomains |-> NoEntry]
  /\ session = [a \in SessionAdapters |-> Null]
  /\ sessionExpiry = [a \in SessionAdapters |-> 0]
  /\ callers = [c \in Callers |-> IdleCaller]
  /\ recordedLog = [d \in Domains |-> <<>>]
  /\ InitFetch /\ InitFactory /\ InitMcp /\ InitPure

\* a function of the rate limiter is called with a domain, or clearRateLimit
\* with none
Invoke(fn, arg) ==
  /\ pure.done \/ pure.fn = "none"
  /\ arg.given \/ fn = "clearRateLimit"
  /\ fn = "recordRequest" => Len(rateLimitStore[arg.domain].requests) < MaxStamps
  /\ pure' = PureCall(fn, <<arg>>)
  /\ UNCHANGED <<scrapeVars, fetchVars, factoryVars, mcpVars>>

\* the called function runs
RunRateLimiter ==
  /\ ~pure.done
  /\ pure.fn \in RateLimiterFunctions
  /\ LET fn == pure.fn
         arg == pure.args[1]
         domain == arg.domain
     IN /\ rateLimitStore' =
             CASE fn = "canMakeRequest" -> canMakeRequestStore(rateLimitStore, domain, now)
               [] fn = "recordRequest" -> recordRequest(rateLimitStore, domain, now)
               [] fn = "getRemainingRequests" ->
                    getRemainingRequestsStore(rateLimitStore, domain, now)
               [] OTHER -> clearRateLimit(rateLimitStore, arg)
        /\ pure' = [pure EXCEPT
             !.done = TRUE,
             !.out = CASE fn = "canMakeRequest" ->
                            Value(Bool(canMakeRequest(rateLimitStore, domain, now)))
                       [] fn = "getRemainingRequests" ->
                            Value(Num(getRemainingRequests(rateLimitStore, domain, now) * Scale))
                       [] OTHER -> Value(Undefined)]
  /\ UNCHANGED <<now, session, sessionExpiry, callers, recordedLog>>
  /\ UNCHANGED <<fetchVars, factoryVars, mcpVars>>

NextIsolation ==
  \/ Tick(TickMs, MaxTicks)
  \/ \E fn \in RateLimiterFunctions, arg \in {Given(d) : d \in IsolationDomains} \cup {NotGiven} :
       Invoke(fn, arg)
  \/ RunRateLimiter

SpecIsolation == InitIsolation /\ [][NextIsolation]_vars

\* C34: canMakeRequest, recordRequest, getRemainingRequests and
\* clearRateLimit(d), applied to a domain d, leave the timestamps and the
\* admission result of every other domain as they were, and clearRateLimit()
\* without argument leaves every domain without entry and admitted
C34_DomainIsolation ==
  [][(~pure.done /\ pure'.done /\ pure.fn \in RateLimiterFunctions) =>
       IF pure.fn = "clearRateLimit" /\ ~pure.args[1].given
         THEN \A d \in IsolationDomains :
                /\ rateLimitStore'[d] = NoEntry
                /\ canMakeRequest(rateLimitStore', d, now')
         ELSE \A other \in IsolationDomains \ {pure.args[1].domain} :
                /\ rateLimitStore'[other] = rateLimitStore[other]
                /\ canMakeRequest(rateLimitStore', other, now')
                     = canMakeRequest(rateLimitStore, other, now)]_vars

\* -------------------------------------------------------------- SpecNoCookie
\* calls on the session adapters, made one after the other, against a site
\* whose homepage sets no cookie or one that is no session cookie
NoSessionCookies == { NoSetCookie, [name |-> "csrftoken", value |-> <<"x">>] }

NoCookieStatuses == {200, 403}

NoCookieCalls == { <<"travis", "searchByAddress">>, <<"wcad", "getPropertyDetails">> }

NextNoCookie ==
  \/ Tick(defaultConfig.windowMs, MaxAdapterTicks)
  \/ \E c \in Callers :
       \/ /\ \A other \in Callers : other < c => callers[other].pc = "done"
          /\ \E call \in NoCookieCalls :
               StartCall(c, call[1], call[2], Str(<<"1","0","0","1">>), <<>>)
       \/ CallerWake(c)
       \/ CallerSend(c)
       \/ FetchThrows(c)
       \/ \E status \in NoCookieStatuses, cookie \in NoSessionCookies :
            FetchResponds(c, status, cookie)

SpecNoCookie == Init /\ [][NextNoCookie]_vars

\* caller c is at the search or detail request of its call: waiting to be
\* admitted, admitted, or with the request sent
AtMainRequest(c) ==
  /\ callers[c].adapter \in SessionAdapters
  /\ callers[c].req \in {"search", "detail"}
  /\ callers[c].pc \in {"sleeping", "admitted", "fetching"}

\* C35: with no session cookie in any homepage response the adapter holds no
\* session at any time, every search or detail call sends a homepage
\* handshake before its request, which then carries no cookie, and in the
\* Williamson adapter every 401 / 403 is followed by two more handshakes
\* before the retry is sent: a call entered for the k-th time has sent
\* 3k - 2 fetches before its request and no retry happens in Travis
C35_NoSessionHeld ==
  /\ \A a \in SessionAdapters : session[a] = Null
  /\ \A c \in Callers :
       AtMainRequest(c) =>
         /\ callers[c].sent = 3 * callers[c].attempts - 2
                                + (IF callers[c].pc = "fetching" THEN 1 ELSE 0)
         /\ callers[c].tries = (IF callers[c].pc = "fetching" THEN 1 ELSE 0)
         /\ callers[c].adapter = "travis" => callers[c].attempts = 1
         /\ callers[c].pc = "fetching" => callers[c].cookie = Null

\* a Williamson detail call answered with 401 or 403 has sent its retry as
\* its fifth fetch: handshake, request, two handshakes, retry
C35_Witness ==
  \E c \in Callers :
    /\ callers[c].adapter = "wcad"
    /\ callers[c].op = "getPropertyDetails"
    /\ callers[c].pc = "fetching"
    /\ callers[c].req = "detail"
    /\ callers[c].attempts = 2
    /\ callers[c].sent = 5
    /\ session["wcad"] = Null

\* ----------------------------------------------------------------- SpecAgree
\* the inputs of SpecCoordinates and SpecStatus, and latitudes that are
\* arrays of one number
AgreeLatitudes ==
  LatitudeInputs \cup { Arr(<<Num(30 * Scale)>>), Arr(<<Num(40 * Scale)>>), Arr(<<>>) }

InitAgree ==
  /\ InitScrape /\ InitFetch /\ InitFactory /\ InitMcp
  /\ pure \in {PureCall("normalizeCoordinates", <<lat, lng>>) :
                 lat \in AgreeLatitudes, lng \in LongitudeInputs}
              \cup {PureCall("normalizeStatus", <<x>>) : x \in StatusInputs}

NextAgree == NextCoordinates \/ NextStatus

SpecAgree == InitAgree /\ [][NextAgree]_vars

\* C36: what normalizeCoordinates returns, when not null, passes
\* validateCoordinates; what normalizeStatus returns passes validateStatus;
\* and a pair of numbers that passes validateCoordinates is returned by
\* normalizeCoordinates as it is
C36_NormalizerValidatorAgree ==
  pure.done =>
    /\ (pure.fn = "normalizeCoordinates" /\ pure.out # Null) =>
         validateCoordinates(pure.out.v.latitude, pure.out.v.longitude)
    /\ (pure.fn = "normalizeCoordinates" /\ validateCoordinates(pure.args[1], pure.args[2])) =>
         pure.out = Obj([latitude |-> pure.args[1], longitude |-> pure.args[2]])
    /\ pure.fn = "normalizeStatus" => validateStatus(pure.out)

\* ------------------------------------------------------------- SpecPriceFlow
\* a raw price is normalized and a record holding the result is validated
FlowPrices ==
  { EmptyStr, Str(<<"N","/","A">>), Str(<<"$">>), Str(<<"c","a","l","l">>), Null, Undefined, Bool(TRUE),
    Str(<<"$","2","5","0",",","0","0","0">>), Str(<<"$","0">>), Num(0), Num(125000 * Scale) }

FlowAddresses ==
  { Undefined, Null, Obj([county |-> Str(<<"H","a","y","s">>)]),
    Obj([county |-> Str(<<"H","a","y","s">>), coordinates |-> Null]),
    Obj([county |-> EmptyStr, coordinates |-> Undefined]),
    Obj([county |-> Str(<<"H","a","y","s">>),
         coordinates |-> Obj([latitude |-> Num(30 * Scale), longitude |-> Num(-98 * Scale)])]),
    Obj([county |-> Str(<<"H","a","y","s">>),
         coordinates |-> Obj([latitude |-> Num(32 * Scale), longitude |-> Num(-98 * Scale)])]) }

InitPriceFlow ==
  /\ InitScrape /\ InitFetch /\ InitFactory /\ InitMcp
  /\ pure \in {PureCall("normalizePrice", <<x>>) : x \in FlowPrices}

\* the normalized price becomes the price of a record, which is handed to
\* validateLandParcelData
ValidateNormalized ==
  /\ pure.fn = "normalizePrice"
  /\ pure.done
  /\ \E source \in {Undefined, Str(<<"h","a","y","s","c","a","d">>)},
        status \in {Str(<<"a","c","t","i","v","e">>), Str(<<"A","c","t","i","v","e">>)},
        address \in FlowAddresses :
       pure' = PureCall("validateLandParcelData",
                        <<Obj([source |-> source, price |-> pure.out,
                               status |-> status, address |-> address])>>)
  /\ UNCHANGED <<scrapeVars, fetchVars, factoryVars, mcpVars>>

NextPriceFlow ==
  \/ NextPrice
  \/ ValidateNormalized
  \/ Returns("validateLandParcelData", validateLandParcelData(pure.args[1]))

SpecPriceFlow == InitPriceFlow /\ [][NextPriceFlow]_vars

\* a raw price that holds no number: text without a digit, or a value that is
\* neither text nor a number
Unparseable(raw) ==
  /\ raw.t \notin {"num", "nan"}
  /\ raw.t = "str" => \A i \in 1..Len(raw.v) : raw.v[i] \notin Digits

\* C37: a raw price that cannot be parsed is normalized to 0; a record with
\* price 0 is reported with invalidPrice true and isValid false and without
\* price among the missingFields; a record whose address.coordinates is null
\* or absent is reported with invalidCoordinates false
C37_UnparsedPriceReported ==
  /\ (pure.fn = "normalizePrice" /\ pure.done /\ Unparseable(pure.args[1])) =>
       pure.out = Num(0)
  /\ (pure.fn = "validateLandParcelData" /\ pure.done) =>
       /\ Get(pure.args[1], "price") = Num(0) =>
            /\ pure.out.errors.invalidPrice
            /\ ~pure.out.isValid
            /\ ~Includes(pure.out.errors.missingFields, <<"price">>)
       /\ getNestedValue(pure.args[1], <<"address", "coordinates">>).t \in {"null", "undef"} =>
            ~pure.out.errors.invalidCoordinates

\* a record with price 0 and null coordinates that lacks nothing is invalid
\* for its price alone
C37_Witness ==
  /\ pure.fn = "validateLandParcelData"
  /\ pure.done
  /\ Get(pure.args[1], "price") = Num(0)
  /\ getNestedValue(pure.args[1], <<"address", "coordinates">>) = Null
  /\ pure.out.errors.missingFields = <<>>
  /\ pure.out.errors.invalidPrice
  /\ ~pure.out.errors.invalidStatus
  /\ ~pure.out.errors.invalidCoordinates
  /\ ~pure.out.isValid

\* ------------------------------------------------------------------- SpecMcp
\* the SSE connections that are established and not closed
OpenConnections == { k \in Connections : sseConnections[k] = "open" }

\* the body of the GET /mcp/sse handler from the creation of the transport
\* on: the slot is overwritten and the close listener registered; the
\* listener of a request that closed before cannot fire any more
establish(k) ==
  /\ transport' = SSEServerTransport(k)
  /\ sseConnections' = [sseConnections EXCEPT
                          ![k] = IF @ = "gone" THEN "closed" ELSE "open"]
  /\ sseOrder' = Append(sseOrder, k)

\* GET /mcp/sse arrives as request k: api.js establishes the connection at
\* once, the lazy version first awaits the import of the SDK
SseGet(k) ==
  /\ sseConnections[k] = "none"
  /\ IF handler = "api"
       THEN establish(k)
       ELSE /\ sseConnections' = [sseConnections EXCEPT ![k] = "importing"]
            /\ UNCHANGED <<transport, sseOrder>>
  /\ UNCHANGED <<lastPost, handler>>
  /\ UNCHANGED <<scrapeVars, fetchVars, factoryVars, pureVars>>

\* the dynamic import of the lazy version resolves for request k
SseImported(k) ==
  /\ sseConnections[k] \in {"importing", "gone"}
  /\ k \notin {sseOrder[i] : i \in 1..Len(sseOrder)}
  /\ establish(k)
  /\ UNCHANGED <<lastPost, handler>>
  /\ UNCHANGED <<scrapeVars, fetchVars, factoryVars, pureVars>>

\* the client of request k disconnects: req emits "close", and the listener,
\* when registered, sets transport to null
ReqClose(k) ==
  /\ sseConnections[k] \in {"open", "importing"}
  /\ IF sseConnections[k] = "open"
       THEN /\ transport' = Null
            /\ sseConnections' = [sseConnections EXCEPT ![k] = "closed"]
       ELSE /\ sseConnections' = [sseConnections EXCEPT ![k] = "gone"]
            /\ UNCHANGED transport
  /\ UNCHANGED <<sseOrder, lastPost, handler>>
  /\ UNCHANGED <<scrapeVars, fetchVars, factoryVars, pureVars>>

\* POST /mcp/messages: handled by the transport in the slot, or answered
\* with the error "No active SSE transport"; open is the set of connections
\* open at that moment
PostMessage ==
  /\ lastPost' = IF transport # Null
                   THEN [answer |-> "handled", by |-> transport, open |-> OpenConnections]
                   ELSE [answer |-> "error", by |-> Null, open |-> OpenConnections]
  /\ UNCHANGED <<transport, sseConnections, sseOrder, handler>>
  /\ UNCHANGED <<scrapeVars, fetchVars, factoryVars, pureVars>>

InitMcpSpec ==
  InitScrape /\ InitFetch /\ InitFactory /\ InitPure /\ InitMcpOf({"api", "lazy"})

NextMcp ==
  \/ \E k \in Connections : SseGet(k) \/ SseImported(k) \/ ReqClose(k)
  \/ PostMessage

SpecMcp == InitMcpSpec /\ [][NextMcp]_vars

\* the open connection whose transport was created last
LatestOpen ==
  LET positions == { i \in 1..Len(sseOrder) : sseOrder[i] \in OpenConnections }
  IN sseOrder[CHOOSE i \in positions : \A j \in positions : j <= i]

\* C38: the transport slot holds the transport of the most recently opened
\* SSE connection that is still open and is null only when none is open, and
\* a POST /mcp/messages is answered with the error "No active SSE
\* transport" only when no SSE connection is open
C38_TransportSlot ==
  /\ IF OpenConnections = {}
       THEN transport = Null
       ELSE transport = SSEServerTransport(LatestOpen)
  /\ lastPost.answer = "error" => lastPost.open = {}

====
